---- MODULE Spec2Model ----
(***************************************************************************)
(* Model of source/blender/gpu/intern/gpu_shader_dependency.cc: the shader *)
(* source registry (g_sources), the construction of every GPUSource, the   *)
(* recursive dependency resolution GPUSource::init_dependencies driven by  *)
(* gpu_shader_dependency_init, and the read-only queries that follow.      *)
(*                                                                         *)
(* A source text is a sequence of lexemes.  The lexeme REQ stands for the  *)
(* substring "pragma BLENDER_REQUIRE(" (it ends with the character '('),   *)
(* CLOSE for ")", a file name for the characters of that file name, and a  *)
(* builtin keyword for its characters.  Offsets are 0-based as in          *)
(* StringRef, and -1 is StringRef::not_found.                              *)
(***************************************************************************)
EXTENDS Integers, Sequences, FiniteSets, TLC

VARIABLES
  source,             \* GPUSource::source of every registered file
  builtins,           \* GPUSource::builtins
  dependencies,       \* GPUSource::dependencies
  dependencies_init,  \* GPUSource::dependencies_init
  pending,            \* values of g_sources the loop of gpu_shader_dependency_init has yet to visit
  stack,              \* activation records of init_dependencies, innermost last
  retval,             \* value returned by the call that just ended, NoValue when consumed
  errors,             \* local `errors` of gpu_shader_dependency_init
  phase,              \* "resolve", then "ready" (queries allowed) or "aborted"
  result,             \* the last query and what it returned
  ncalls,             \* history: number of calls of init_dependencies per file
  returned,           \* history: [src, ret] of every call of init_dependencies that ended
  printed,            \* history: [src, msg] of every print_error
  nscans,             \* history: times init_dependencies went past its guard, per file
  datatoc,            \* the text each GPUSource is constructed from
  filename,           \* GPUSource::filename
  processed_source,   \* GPUSource::processed_source, empty until enum_preprocess assigns it
  g_functions,        \* the function registry: name -> GPUFunction
  unbuilt,            \* SHADER_SOURCE entries whose GPUSource is yet to be constructed
  used_libraries,     \* the caller's GSet given to gpu_material_library_use_function
  use_result,         \* the last call of gpu_material_library_use_function and its outcome
  threads,            \* the query each thread is running, and how far it is
  acc,                \* the vectors and flag sets the running queries accumulate into
  scan,               \* a scan loop followed turn by turn: its text and its locals
  seq,                \* the Sequence given to SEQ_time_update_sequence
  comb                \* a comb stroke step: the curves, the tasks and the writes

vars == <<source, builtins, dependencies, dependencies_init, pending, stack,
          retval, errors, phase, result, ncalls, returned, printed, nscans,
          datatoc, filename, processed_source, g_functions, unbuilt,
          used_libraries, use_result, threads, acc, scan, seq, comb>>

fragvars == <<source, builtins, dependencies, dependencies_init>>

\* What the constructors, the function library and the query threads own.
othervars == <<datatoc, filename, processed_source, g_functions, unbuilt,
               used_libraries, use_result, threads, acc, scan, seq, comb>>

-----------------------------------------------------------------------------
(* Inputs.                                                                 *)

\* Largest number of chunks (directives or keywords) over all source texts.
MaxChunks == 3

\* Declarations, directives and filler lines over all the texts given to the
\* constructors.
MaxDecls == 2

\* Largest number of chunks over all source texts in the runs with query
\* threads.
MaxQueryChunks == 2

\* The SHADER_SOURCE list: the file names registered in g_sources.
SourceList == {"a", "b", "c"}
SourceOrder == <<"a", "b", "c">>

\* A file name that no SHADER_SOURCE entry registers.
Unregistered == "z"

REQ == "pragma BLENDER_REQUIRE("
CLOSE == ")"

\* The keywords scanned by the constructor, with the bit each one sets.
BuiltinOf ==
  [gl_FragCoord |-> "FRAG_COORD",
   gl_FrontFacing |-> "FRONT_FACING",
   gl_GlobalInvocationID |-> "GLOBAL_INVOCATION_ID",
   gl_InstanceID |-> "INSTANCE_ID",
   gl_LocalInvocationID |-> "LOCAL_INVOCATION_ID",
   gl_LocalInvocationIndex |-> "LOCAL_INVOCATION_INDEX",
   gl_NumWorkGroup |-> "NUM_WORK_GROUP",
   gl_PointCoord |-> "POINT_COORD",
   gl_PointSize |-> "POINT_SIZE",
   gl_PrimitiveID |-> "PRIMITIVE_ID",
   gl_VertexID |-> "VERTEX_ID",
   gl_WorkGroupID |-> "WORK_GROUP_ID",
   gl_WorkGroupSize |-> "WORK_GROUP_SIZE"]

Keywords == DOMAIN BuiltinOf

\* shader::BuiltinBits::NONE
NONE == {}

NoValue == -1
NoSource == "nullptr"

\* The pieces the input texts are assembled from: a well-formed directive per
\* name, a directive with no closing parenthesis, and a builtin keyword.
Chunks ==
  {<<REQ, n, CLOSE>> : n \in SourceList \cup {Unregistered}}
    \cup {<<REQ, "b">>, <<"gl_FragCoord">>}

RECURSIVE Flatten(_)
Flatten(cs) == IF cs = <<>> THEN <<>> ELSE Head(cs) \o Flatten(Tail(cs))

ChunkSeqs == UNION {[1..n -> Chunks] : n \in 0..MaxChunks}

QueryChunkSeqs == UNION {[1..n -> Chunks] : n \in 0..MaxQueryChunks}

-----------------------------------------------------------------------------
(* StringRef primitives on lexeme sequences.                               *)

Min(S) == CHOOSE x \in S : \A y \in S : x <= y

Range(s) == {s[i] : i \in 1..Len(s)}

\* StringRef::find(str, pos): offset of the first occurrence at or after pos.
Find(text, lex, pos) ==
  LET hits == {i \in pos..(Len(text) - 1) : text[i + 1] = lex}
  IN IF hits = {} THEN -1 ELSE Min(hits)

\* StringRef::find(char, pos): the lexeme REQ ends with '(' and CLOSE is ')'.
HasChar(lex, ch) == (ch = "(" /\ lex = REQ) \/ (ch = ")" /\ lex = CLOSE)

FindChar(text, ch, pos) ==
  LET hits == {i \in pos..(Len(text) - 1) : HasChar(text[i + 1], ch)}
  IN IF hits = {} THEN -1 ELSE Min(hits)

\* StringRef::substr(start, size)
SubStr(text, start, size) == SubSeq(text, start + 1, start + size)

\* GPUSourceDictionnary::lookup_default(name, nullptr)
LookupDefault(name) ==
  IF Len(name) = 1 /\ name[1] \in SourceList THEN name[1] ELSE NoSource

-----------------------------------------------------------------------------
(* GPUSource: constructor, init_dependencies, build, builtins_get.         *)

\* The constructor's builtin scan: `if (source.find(keyword, 0))` takes the
\* branch whenever the returned offset is non-zero.
ScanBuiltins(text) ==
  {BuiltinOf[k] : k \in {kw \in Keywords : Find(text, kw, 0) # 0}}

\* Vector::append_non_duplicates
AppendNonDuplicates(vec, value) ==
  IF value \in Range(vec) THEN vec ELSE Append(vec, value)

RECURSIVE AppendAllNonDuplicates(_, _)
AppendAllNonDuplicates(vec, values) ==
  IF values = <<>> THEN vec
  ELSE AppendAllNonDuplicates(AppendNonDuplicates(vec, Head(values)), Tail(values))

AddDependencyPlain(vec, dependency_source, dependency_deps) ==
  Append(vec \o dependency_deps, dependency_source)

\* The two loops that close an iteration of init_dependencies: the
\* dependencies of dependency_source, then dependency_source itself.
AddDependency(vec, dependency_source, dependency_deps) ==
  AppendNonDuplicates(AppendAllNonDuplicates(vec, dependency_deps), dependency_source)

SetDependenciesInitNever(flags, src) == flags

\* this->dependencies_init = true
SetDependenciesInit(flags, src) == [flags EXCEPT ![src] = TRUE]

\* source.c_str(): a pointer into the text owned by src, and what it points to.
CStr(src) == [owner |-> src, text |-> source[src]]

RECURSIVE BuildLoop(_, _)
BuildLoop(res, deps) ==
  IF deps = <<>> THEN res ELSE BuildLoop(Append(res, CStr(Head(deps))), Tail(deps))

BuildNoOwn(src) == BuildLoop(<<>>, dependencies[src])

\* GPUSource::build
Build(src) == Append(BuildLoop(<<>>, dependencies[src]), CStr(src))

RECURSIVE BuiltinsLoop(_, _)
BuiltinsLoop(out_builtins, deps) ==
  IF deps = <<>> THEN out_builtins
  ELSE BuiltinsLoop(out_builtins \cup builtins[Head(deps)], Tail(deps))

\* GPUSource::builtins_get
BuiltinsGet(src) == BuiltinsLoop(NONE, dependencies[src])

-----------------------------------------------------------------------------
(* State after every GPUSource has been constructed and added to g_sources. *)

Frame(src) == [src |-> src, pc |-> "entry", pos |-> -1, dep |-> NoSource]

NoResult == [op |-> "none", name |-> "", bits |-> NONE, blocks |-> <<>>]

\* gpu_material_library_use_function has not been called.
\* The null GPUFunction pointer.
NullFunction ==
  [name |-> <<>>, source |-> NoSource, totparam |-> 0, paramqual |-> <<>>,
   paramtype |-> <<>>]

NoUse == [name |-> <<>>, function |-> NullFunction, outcome |-> "none"]

\* The threads that query the registry once it is built.
Threads == {"t1", "t2"}

\* Where a running query keeps the vector or flags it returns: a local of
\* the call, one per thread.
Slots == Threads

SlotShared(t) == "t1"

\* `Vector<const char *> result` and `out_builtins` are locals of the call.
SlotOf(t) == t

\* What a query returns: flags, a vector of c_str pointers, a reference to
\* a source text, or a file name.
NoRet ==
  [bits |-> NONE, blocks |-> <<>>, ref |-> [owner |-> NoSource, text |-> <<>>],
   str |-> <<>>]

\* A thread that runs no query.
Idle == [op |-> "idle", name |-> "", i |-> 0, pc |-> "idle", ret |-> NoRet]

NoAcc == [bits |-> NONE, blocks |-> <<>>]

\* No scan loop is followed.
NoScan ==
  [fn |-> "none", input |-> <<>>, keyword |-> <<>>, check_whole_word |-> FALSE,
   reversed |-> FALSE, is_cpp |-> FALSE, cursor |-> -1, last_pos |-> 0,
   pc |-> "none", iters |-> 0]

\* No strip is being updated.
NoSeq ==
  [pc |-> "none", inputs |-> <<>>, start |-> 0, len |-> 0, startofs |-> 0,
   endofs |-> 0, startstill |-> 0, endstill |-> 0, startdisp |-> 0,
   enddisp |-> 0, invalid |-> FALSE]

\* No comb stroke step is running.
NoComb == [pc |-> "none"]

InitWith(seqs, scans, strips, combs) ==
  /\ \E cs \in seqs : \E i \in 0..Len(cs) : \E j \in i..Len(cs) :
       source = [f \in SourceList |->
                   CASE f = SourceOrder[1] -> Flatten(SubSeq(cs, 1, i))
                     [] f = SourceOrder[2] -> Flatten(SubSeq(cs, i + 1, j))
                     [] OTHER -> Flatten(SubSeq(cs, j + 1, Len(cs)))]
  /\ builtins = [f \in SourceList |-> ScanBuiltins(source[f])]
  /\ dependencies = [f \in SourceList |-> <<>>]
  /\ dependencies_init = [f \in SourceList |-> FALSE]
  /\ pending = SourceList
  /\ stack = <<>>
  /\ retval = NoValue
  /\ errors = 0
  /\ phase = "resolve"
  /\ result = NoResult
  /\ ncalls = [f \in SourceList |-> 0]
  /\ returned = {}
  /\ printed = {}
  /\ nscans = [f \in SourceList |-> 0]
  /\ datatoc = source
  /\ filename = [f \in SourceList |-> <<f, ".glsl">>]
  /\ processed_source = [f \in SourceList |-> <<>>]
  /\ g_functions = <<>>
  /\ unbuilt = <<>>
  /\ used_libraries = {}
  /\ use_result = NoUse
  /\ threads = [t \in Threads |-> Idle]
  /\ acc = [t \in Slots |-> NoAcc]
  /\ scan \in scans
  /\ seq \in strips
  /\ comb \in combs

Init == InitWith(ChunkSeqs, {NoScan}, {NoSeq}, {NoComb})

-----------------------------------------------------------------------------
(* gpu_shader_dependency_init: the loop over g_sources->values().          *)

Top == stack[Len(stack)]

Pop == SubSeq(stack, 1, Len(stack) - 1)

\* `return ret` of the innermost call.
Return(ret) ==
  /\ stack' = Pop
  /\ retval' = ret
  /\ returned' = returned \cup {[src |-> Top.src, ret |-> ret]}

\* value->init_dependencies(*g_sources, *g_functions), for the next value in
\* the map's iteration order, which depends on the hash of the keys.
CallInitDependencies(value) ==
  /\ phase = "resolve"
  /\ stack = <<>>
  /\ retval = NoValue
  /\ value \in pending
  /\ pending' = pending \ {value}
  /\ stack' = <<Frame(value)>>
  /\ ncalls' = [ncalls EXCEPT ![value] = @ + 1]
  /\ UNCHANGED <<fragvars, retval, errors, phase, result, returned, printed>>
  /\ UNCHANGED <<nscans, othervars>>

\* Entry of init_dependencies: the memoization guard, or the flag is set and
\* the scan starts at pos = -1.
Enter ==
  /\ stack # <<>>
  /\ Top.pc = "entry"
  /\ IF dependencies_init[Top.src]
     THEN /\ Return(0)
          /\ UNCHANGED <<dependencies_init, nscans>>
     ELSE /\ dependencies_init' = SetDependenciesInit(dependencies_init, Top.src)
          /\ stack' = [stack EXCEPT ![Len(stack)].pc = "scan"]
          /\ nscans' = [nscans EXCEPT ![Top.src] = @ + 1]
          /\ UNCHANGED <<retval, returned>>
  /\ UNCHANGED <<source, builtins, dependencies, pending, errors, phase, result,
                 ncalls, printed>>
  /\ UNCHANGED othervars

\* One pass through the block that finds the next directive and its source,
\* up to the recursive call.
Scan ==
  /\ stack # <<>>
  /\ Top.pc = "scan"
  /\ LET text == source[Top.src]
         pos == Find(text, REQ, Top.pos + 1)
         start == FindChar(text, "(", pos) + 1
         end == FindChar(text, ")", pos)
         dependency_name == SubStr(text, start, end - start)
         dependency_source == LookupDefault(dependency_name)
     IN IF pos = -1
        THEN /\ Return(0)
             /\ UNCHANGED <<printed, ncalls>>
        ELSE IF end = -1
        THEN /\ printed' = printed \cup
                  {[src |-> Top.src, msg |-> "Malformed BLENDER_REQUIRE"]}
             /\ Return(1)
             /\ UNCHANGED ncalls
        ELSE IF dependency_source = NoSource
        THEN /\ printed' = printed \cup
                  {[src |-> Top.src, msg |-> "Dependency not found"]}
             /\ Return(1)
             /\ UNCHANGED ncalls
        ELSE /\ stack' = Append([stack EXCEPT ![Len(stack)] =
                                   [@ EXCEPT !.pc = "call", !.pos = pos,
                                             !.dep = dependency_source]],
                                Frame(dependency_source))
             /\ ncalls' = [ncalls EXCEPT ![dependency_source] = @ + 1]
             /\ UNCHANGED <<retval, returned, printed>>
  /\ UNCHANGED <<fragvars, pending, errors, phase, result>>
  /\ UNCHANGED <<nscans, othervars>>

\* After the recursive call returned: propagate the failure, or append the
\* dependency's dependencies and the dependency, and loop.
Resume ==
  /\ stack # <<>>
  /\ Top.pc = "call"
  /\ retval # NoValue
  /\ IF retval # 0
     THEN /\ Return(1)
          /\ UNCHANGED dependencies
     ELSE /\ dependencies' =
               [dependencies EXCEPT ![Top.src] =
                  AddDependency(@, Top.dep, dependencies[Top.dep])]
          /\ stack' = [stack EXCEPT ![Len(stack)].pc = "scan"]
          /\ retval' = NoValue
          /\ UNCHANGED returned
  /\ UNCHANGED <<source, builtins, dependencies_init, pending, errors, phase,
                 result, ncalls, printed>>
  /\ UNCHANGED <<nscans, othervars>>

\* errors += value->init_dependencies(...)
Accumulate ==
  /\ stack = <<>>
  /\ retval # NoValue
  /\ errors' = errors + retval
  /\ retval' = NoValue
  /\ UNCHANGED <<fragvars, pending, stack, phase, result, ncalls, returned, printed>>
  /\ UNCHANGED <<nscans, othervars>>

\* End of the loop.  BLI_assert_msg(errors == 0, ...) lets the function
\* return when it holds or when asserts do not abort in this build.
FinishInit ==
  /\ phase = "resolve"
  /\ stack = <<>>
  /\ retval = NoValue
  /\ pending = {}
  /\ phase' = "ready"
  /\ UNCHANGED <<fragvars, pending, stack, retval, errors, result, ncalls,
                 returned, printed>>
  /\ UNCHANGED <<nscans, othervars>>

\* BLI_assert_msg(errors == 0, ...) in a build whose asserts abort.
AssertAbort ==
  /\ phase = "resolve"
  /\ stack = <<>>
  /\ retval = NoValue
  /\ pending = {}
  /\ errors # 0
  /\ phase' = "aborted"
  /\ UNCHANGED <<fragvars, pending, stack, retval, errors, result, ncalls,
                 returned, printed>>
  /\ UNCHANGED <<nscans, othervars>>

-----------------------------------------------------------------------------
(* Queries, once gpu_shader_dependency_init has returned.                  *)

\* The names a caller may pass: registered, empty, or not registered.
QueryNames == SourceList \cup {"", Unregistered}

\* g_sources->contains(name)
Contains(name) == name \in SourceList

gpu_shader_dependency_get_builtins_unchecked(shader_source_name) ==
  IF Contains(shader_source_name) THEN BuiltinsGet(shader_source_name)
  ELSE UNION {builtins[f] : f \in SourceList}

\* The value gpu_shader_dependency_get_builtins returns.
gpu_shader_dependency_get_builtins(shader_source_name) ==
  IF shader_source_name = "" THEN NONE
  ELSE IF Contains(shader_source_name) = FALSE THEN NONE
  ELSE BuiltinsGet(shader_source_name)

\* A call of gpu_shader_dependency_get_builtins that returns.
GetBuiltins(name) ==
  /\ phase = "ready"
  /\ result' = [op |-> "get_builtins", name |-> name,
                bits |-> gpu_shader_dependency_get_builtins(name), blocks |-> <<>>]
  /\ UNCHANGED <<fragvars, pending, stack, retval, errors, phase, ncalls,
                 returned, printed>>
  /\ UNCHANGED <<nscans, othervars>>

\* A call with a name that is not registered, in a build where BLI_assert(0)
\* aborts.
GetBuiltinsAbort(name) ==
  /\ phase = "ready"
  /\ name # ""
  /\ Contains(name) = FALSE
  /\ phase' = "aborted"
  /\ UNCHANGED <<fragvars, pending, stack, retval, errors, result, ncalls,
                 returned, printed>>
  /\ UNCHANGED <<nscans, othervars>>

\* gpu_shader_dependency_get_resolved_source, for a registered name.
GetResolvedSource(name) ==
  /\ phase = "ready"
  /\ result' = [op |-> "get_resolved_source", name |-> name,
                bits |-> NONE, blocks |-> Build(name)]
  /\ UNCHANGED <<fragvars, pending, stack, retval, errors, phase, ncalls,
                 returned, printed>>
  /\ UNCHANGED <<nscans, othervars>>

-----------------------------------------------------------------------------
(* What the texts ask for, read off the texts independently of the scan.   *)

ReqPositions(text) == {i \in 0..(Len(text) - 1) : text[i + 1] = REQ}

Closed(text, i) == FindChar(text, ")", i) # -1

NameAt(text, i) == SubStr(text, i + 1, FindChar(text, ")", i) - (i + 1))

\* Every directive of f has its closing parenthesis and names a registered file.
WellFormed(f) ==
  \A i \in ReqPositions(source[f]) :
    Closed(source[f], i) /\ LookupDefault(NameAt(source[f], i)) # NoSource

\* f has a closed directive whose name is not registered.
NamesUnregistered(f) ==
  \E i \in ReqPositions(source[f]) :
    Closed(source[f], i) /\ LookupDefault(NameAt(source[f], i)) = NoSource

\* The registered files that the directives of f name.
Requires(f) ==
  {LookupDefault(NameAt(source[f], i)) :
     i \in {k \in ReqPositions(source[f]) : Closed(source[f], k)}} \ {NoSource}

RECURSIVE Reach(_, _)
Reach(S, n) ==
  IF n = 0 THEN S ELSE Reach(S \cup UNION {Requires(g) : g \in S}, n - 1)

\* Everything f requires, directly or transitively.
TransRequires(f) == Reach(Requires(f), Cardinality(SourceList))

NoDuplicates(vec) ==
  \A i, j \in 1..Len(vec) : i # j => vec[i] # vec[j]

Owners(blocks) == [i \in 1..Len(blocks) |-> blocks[i].owner]

Positions(vec, x) == {i \in 1..Len(vec) : vec[i] = x}

-----------------------------------------------------------------------------
(* The resolve-all pass as a function of the order of the visits.         *)

\* init_dependencies as a function: from the dependency lists and flags in st,
\* the lists and flags after the call on src, and the value it returns.
RECURSIVE InitDependenciesFn(_, _), ScanFn(_, _, _)
InitDependenciesFn(st, src) ==
  IF st.init[src] THEN [st EXCEPT !.ret = 0]
  ELSE ScanFn([st EXCEPT !.init = SetDependenciesInit(@, src)], src, -1)

ScanFn(st, src, last_pos) ==
  LET text == source[src]
      pos == Find(text, REQ, last_pos + 1)
      start == FindChar(text, "(", pos) + 1
      end == FindChar(text, ")", pos)
      dependency_source == LookupDefault(SubStr(text, start, end - start))
  IN IF pos = -1 THEN [st EXCEPT !.ret = 0]
     ELSE IF end = -1 \/ dependency_source = NoSource THEN [st EXCEPT !.ret = 1]
     ELSE LET after == InitDependenciesFn(st, dependency_source)
          IN IF after.ret # 0 THEN [after EXCEPT !.ret = 1]
             ELSE ScanFn([after EXCEPT !.deps[src] =
                            AddDependency(@, dependency_source,
                                          after.deps[dependency_source])],
                         src, pos)

RECURSIVE ResolveAllFn(_, _)
ResolveAllFn(st, order) ==
  IF order = <<>> THEN st
  ELSE ResolveAllFn(InitDependenciesFn(st, Head(order)), Tail(order))

\* The orders in which the loop of gpu_shader_dependency_init may visit g_sources.
VisitOrders ==
  {order \in [1..Cardinality(SourceList) -> SourceList] : Range(order) = SourceList}

\* The dependency lists the pass ends with when it visits g_sources in `order`.
FinalDependencies(order) ==
  ResolveAllFn([deps |-> [f \in SourceList |-> <<>>],
                init |-> [f \in SourceList |-> FALSE],
                ret |-> 0], order).deps

-----------------------------------------------------------------------------

Next ==
  \/ \E value \in SourceList : CallInitDependencies(value)
  \/ Enter
  \/ Scan
  \/ Resume
  \/ Accumulate
  \/ FinishInit
  \/ AssertAbort
  \/ \E name \in QueryNames : GetBuiltins(name)
  \/ \E name \in QueryNames : GetBuiltinsAbort(name)
  \/ \E name \in SourceList : GetResolvedSource(name)

Spec == Init /\ [][Next]_vars

\* The runs over inputs whose directives all have their closing parenthesis
\* and name registered files: init_dependencies never reports an error.
InitSound == Init /\ \A f \in SourceList : WellFormed(f)

NextSound ==
  \/ \E value \in SourceList : CallInitDependencies(value)
  \/ Enter
  \/ Scan
  \/ Resume
  \/ Accumulate
  \/ FinishInit
  \/ \E name \in QueryNames : GetBuiltins(name)
  \/ \E name \in QueryNames : GetBuiltinsAbort(name)
  \/ \E name \in SourceList : GetResolvedSource(name)

SpecSound == InitSound /\ [][NextSound]_vars

-----------------------------------------------------------------------------
(* Claims.                                                                 *)

\* C1: in the sequence returned by gpu_shader_dependency_get_resolved_source(F),
\* every file that an entry D requires, directly or transitively, appears at an
\* earlier position than D.
C1_TopologicalOrder ==
  result.op = "get_resolved_source" =>
    \A i \in 1..Len(result.blocks) :
      \A r \in TransRequires(result.blocks[i].owner) :
        \E j \in 1..(i - 1) : result.blocks[j].owner = r

\* C2: gpu_shader_dependency_get_resolved_source(F) returns len(F.dependencies)+1
\* blocks: block i is the text of F.dependencies[i], the last one the text of F.
C2_BuildBlocks ==
  result.op = "get_resolved_source" =>
    LET deps == dependencies[result.name]
    IN /\ Len(result.blocks) = Len(deps) + 1
       /\ \A i \in 1..Len(deps) :
            result.blocks[i] = [owner |-> deps[i], text |-> source[deps[i]]]
       /\ result.blocks[Len(deps) + 1] =
            [owner |-> result.name, text |-> source[result.name]]

C2_Witness ==
  /\ result.op = "get_resolved_source"
  /\ Len(dependencies[result.name]) >= 2

\* A requires B and C, C requires B, B requires nothing.
Diamond(A, B, C) ==
  /\ A # B /\ A # C /\ B # C
  /\ WellFormed(A) /\ WellFormed(B) /\ WellFormed(C)
  /\ Requires(A) = {B, C}
  /\ Requires(C) = {B}
  /\ Requires(B) = {}

\* C3: no dependency list ever contains a file twice; and when A requires B and
\* C, and C requires B, the build sequence of A holds the text of B exactly
\* once, before the texts of C and of A.
C3_NoDuplicates ==
  /\ \A f \in SourceList : NoDuplicates(dependencies[f])
  /\ \A A, B, C \in SourceList :
       (result.op = "get_resolved_source" /\ result.name = A /\ Diamond(A, B, C)) =>
         LET own == Owners(result.blocks)
         IN /\ Cardinality(Positions(own, B)) = 1
            /\ \A i \in Positions(own, B) :
                 \A j \in Positions(own, C) \cup Positions(own, A) : i < j
            /\ Positions(own, C) # {}
            /\ Positions(own, A) # {}

C3_Witness ==
  \E A, B, C \in SourceList :
    /\ result.op = "get_resolved_source"
    /\ result.name = A
    /\ Diamond(A, B, C)
    /\ Len(result.blocks) = 3

\* C4: no file is ever an element of its own dependency list.
C4_NotOwnDependency ==
  \A f \in SourceList : f \notin Range(dependencies[f])

\* C5: gpu_shader_dependency_get_builtins(F) is the union of the builtin flags
\* of F and of every file in the dependency list of F.
C5_BuiltinsUnion ==
  (result.op = "get_builtins" /\ result.name \in SourceList) =>
    result.bits = builtins[result.name] \cup
                    UNION {builtins[d] : d \in Range(dependencies[result.name])}

C7_SecondCallIdempotent ==
  [][(stack # <<>> /\ Top.pc = "entry" /\ ncalls[Top.src] >= 2)
       => (stack' = Pop /\ dependencies' = dependencies)]_vars

C7_Witness ==
  \E f \in SourceList :
    /\ ncalls[f] >= 2
    /\ [src |-> f, ret |-> 1] \in returned
    /\ [src |-> f, ret |-> 0] \in returned
    /\ dependencies[f] # <<>>
    /\ stack = <<>>

\* C8: when F has a directive naming a file that is not registered, no call of
\* init_dependencies on F, or on a file that requires F directly or
\* transitively, returns success.
C8_FailurePropagates ==
  \A F \in SourceList :
    NamesUnregistered(F) =>
      \A G \in SourceList :
        (G = F \/ F \in TransRequires(G)) =>
          [src |-> G, ret |-> 0] \notin returned

\* C9: a file whose directives, and those of everything it requires, are all
\* well-formed and name registered files ends resolved, with no failed call and
\* with all the files it requires in its dependency list.
C9_SoundFileResolves ==
  \A F \in SourceList :
    (phase # "resolve" /\ \A G \in {F} \cup TransRequires(F) : WellFormed(G)) =>
      /\ dependencies_init[F]
      /\ [src |-> F, ret |-> 1] \notin returned
      /\ TransRequires(F) \ {F} \subseteq Range(dependencies[F])
      /\ Range(dependencies[F]) \subseteq TransRequires(F)

\* C10: the dependency lists gpu_shader_dependency_init ends with are the same
\* for every order in which the pass visits the registry.
C10_OrderIndependent ==
  phase = "ready" =>
    \A order \in VisitOrders : FinalDependencies(order) = dependencies

\* f is past the guard of init_dependencies and has not returned yet.
Resolving(f) ==
  \E k \in 1..Len(stack) : stack[k].src = f /\ stack[k].pc # "entry"

\* C17: dependencies_init is true only once resolution of the file completed
\* successfully: it is false while the file's directives are being processed,
\* and stays false when its resolution fails.
C17_FlagOnlyAfterSuccess ==
  \A f \in SourceList :
    dependencies_init[f] =>
      /\ ~Resolving(f)
      /\ [src |-> f, ret |-> 0] \in returned
      /\ [src |-> f, ret |-> 1] \notin returned

\* A requires B and B requires A, and every directive of the files that A
\* reaches is well-formed.
Cycle(A, B) ==
  /\ A # B
  /\ \A f \in TransRequires(A) : WellFormed(f)
  /\ B \in Requires(A)
  /\ A \in Requires(B)

C19_ScannedAtMostOnce ==
  \A f \in SourceList : nscans[f] <= 1

C19_Witness ==
  \E f \in SourceList :
    /\ ncalls[f] >= 3
    /\ nscans[f] = 1
    /\ phase = "ready"

-----------------------------------------------------------------------------
(* Character-level text: the scanner of enum_preprocess and                *)
(* material_functions_parse.  A text is a sequence of one-character        *)
(* strings; offsets are 0-based and -1 is "not found", as in StringRef.    *)

Max(S) == CHOOSE x \in S : \A y \in S : x >= y

\* input.substr(offset, Len(keyword)) == keyword
MatchAt(input, keyword, i) ==
  /\ i >= 0
  /\ i + Len(keyword) <= Len(input)
  /\ \A k \in 1..Len(keyword) : input[i + k] = keyword[k]

\* StringRef::find(keyword, pos)
FindStr(input, keyword, pos) ==
  LET hits == {i \in pos..(Len(input) - Len(keyword)) : MatchAt(input, keyword, i)}
  IN IF hits = {} THEN -1 ELSE Min(hits)

\* StringRef::rfind(keyword, pos): the last occurrence starting at or before pos.
RFindStr(input, keyword, pos) ==
  LET hits == {i \in 0..Min({pos, Len(input) - Len(keyword)}) :
                 MatchAt(input, keyword, i)}
  IN IF hits = {} THEN -1 ELSE Max(hits)

\* StringRef::substr(start, size), size clamped to what is left of the text.
SubStrClamped(input, start, size) ==
  SubSeq(input, start + 1, Min({start + size, Len(input)}))

\* The characters find_str accepts before a whole-word keyword.
Boundary == {"\n", "\t", " ", ":", "(", ","}

is_in_comment(input, offset) ==
  \/ RFindStr(input, <<"/", "*">>, offset) > RFindStr(input, <<"*", "/">>, offset)
  \/ RFindStr(input, <<"/", "/">>, offset) > RFindStr(input, <<"\n">>, offset)

RECURSIVE find_str(_, _, _, _, _)

\* One turn of the loop of find_str, for the offset that find / rfind gave.
find_str_at(check_whole_word, reversed, input, keyword, found) ==
  IF found > 0 /\ check_whole_word /\ input[found] \notin Boundary
  THEN find_str(check_whole_word, reversed, input, keyword,
                IF reversed THEN found - 1 ELSE found + 1)
  ELSE IF found > 0 /\ is_in_comment(input, found)
  THEN find_str(check_whole_word, reversed, input, keyword,
                IF reversed THEN found - 1 ELSE found + 1)
  ELSE found

find_str(check_whole_word, reversed, input, keyword, offset) ==
  find_str_at(check_whole_word, reversed, input, keyword,
              IF reversed THEN RFindStr(input, keyword, offset)
              ELSE FindStr(input, keyword, offset))

find_keyword(input, keyword, offset) == find_str(TRUE, FALSE, input, keyword, offset)
find_token(input, keyword, offset) == find_str(FALSE, FALSE, input, keyword, offset)
rfind_token(input, keyword, offset) == find_str(FALSE, TRUE, input, keyword, offset)
rfind_keyword(input, keyword, offset) == find_str(TRUE, TRUE, input, keyword, offset)

\* StringRef::endswith / startswith on a file name, kept as <<prefix, stem, suffix>>.
EndsWith(name, suffix) == Len(name) > 0 /\ name[Len(name)] = suffix
StartsWith(name, prefix) == Len(name) > 0 /\ name[1] = prefix

-----------------------------------------------------------------------------
(* GPUSource::enum_preprocess                                              *)

ENUM == <<"e", "n", "u", "m", " ">>
TYPEDEF == <<"t", "y", "p", "e", "d", "e", "f", " ">>
UINT32_T == <<"u", "i", "n", "t", "3", "2", "_", "t">>
HASH_DEFINE == <<"#", "d", "e", "f", "i", "n", "e", " ">>
UINT_NL == <<" ", "u", "i", "n", "t", "\n">>
CONST_UINT == <<"c", "o", "n", "s", "t", " ", "u", "i", "n", "t", " ">>

\* `cursor >= 8 && input.substr(cursor - 8, 8) == "typedef "`
AfterTypedef(input, cursor) ==
  cursor >= Len(TYPEDEF) /\ MatchAt(input, TYPEDEF, cursor - Len(TYPEDEF))

EnumValuesKeepComma(input, values_start, values_end) ==
  SubStrClamped(input, values_start, values_end - values_start)

\* The text between the braces, cut at the last comma when that comma comes
\* after the last '='.  values_start is already past the opening brace.
EnumValues(input, values_start, values_end) ==
  LET enum_values == SubStrClamped(input, values_start, values_end - values_start)
      last_equal == rfind_token(enum_values, <<"=">>, values_end)
      last_comma == rfind_token(enum_values, <<",">>, values_end)
  IN IF last_comma > last_equal
     THEN SubStrClamped(input, values_start, last_comma)
     ELSE enum_values

\* `input[values_end + 1] == ';'`; the character at size() is the NUL.
SemicolonFound(input, values_end) ==
  values_end + 1 < Len(input) /\ input[values_end + 2] = ";"

\* The locals of enum_preprocess that one turn of the while loop leaves.
EnumState(cursor, last_pos, output, msgs) ==
  [cursor |-> cursor, last_pos |-> last_pos, output |-> output, msgs |-> msgs]

\* A CHECK that failed: print_error, then `continue` with cursor and
\* last_pos as they are and output as far as it was written.
EnumError(cursor, last_pos, output, msgs, msg, offset) ==
  EnumState(cursor, last_pos, output, msgs \cup {[msg |-> msg, offset |-> offset]})

\* The semicolon CHECK and `cursor = last_pos = values_end + 1`.
EnumSemicolon(input, cursor, last_pos, output, msgs, values_end) ==
  IF ~SemicolonFound(input, values_end)
  THEN EnumError(cursor, last_pos, output, msgs,
                 "Expected ';' after enum type declaration.", values_end + 1)
  ELSE EnumState(values_end + 1, values_end + 1, output, msgs)

\* The CHECKs on the closing and on a nested brace, then the constant list.
EnumClose(input, cursor, last_pos, output, msgs, values_start, values_end) ==
  IF values_end = -1
  THEN EnumError(cursor, last_pos, output, msgs,
                 "Malformed enum class. Expected '}' after values.", cursor)
  ELSE IF find_token(SubStrClamped(input, values_start + 1,
                                   values_end - values_start - 1), <<"{">>, 0) # -1
  THEN EnumError(cursor, last_pos, output, msgs,
                 "Unexpected '{' token inside enum values.",
                 values_start + 1
                   + find_token(SubStrClamped(input, values_start + 1,
                                              values_end - values_start - 1), <<"{">>, 0))
  ELSE EnumSemicolon(input, cursor, last_pos,
                     output \o CONST_UINT \o EnumValues(input, values_start + 1, values_end),
                     msgs, values_end)

\* `output += "#define " + enum_name + " uint\n"`, then the closing brace.
EnumDefine(input, cursor, last_pos, output, msgs, values_start, enum_name) ==
  EnumClose(input, cursor, last_pos, output \o HASH_DEFINE \o enum_name \o UINT_NL,
            msgs, values_start, find_token(input, <<"}">>, values_start))

\* The is_cpp branch: ':' and uint32_t inside the text of the name.
EnumCppName(input, cursor, last_pos, output, msgs, name_start, values_start, raw_name, name_end) ==
  IF name_end = -1
  THEN EnumError(cursor, last_pos, output, msgs,
                 "Expected ':' after C++ enum name.", name_start)
  ELSE IF find_keyword(raw_name, UINT32_T, name_end) = -1
  THEN EnumError(cursor, last_pos, output, msgs,
                 "C++ enums needs uint32_t underlying type.", name_start)
  ELSE EnumDefine(input, cursor, last_pos, output, msgs, values_start,
                  SubStrClamped(input, name_start, name_end))

\* The CHECK on the opening brace and the text of the name.
EnumName(input, is_cpp, cursor, last_pos, output, msgs, name_start, values_start) ==
  IF values_start = -1
  THEN EnumError(cursor, last_pos, output, msgs,
                 "Malformed enum class. Expected '{' after typename.", cursor)
  ELSE IF is_cpp
  THEN EnumCppName(input, cursor, last_pos, output, msgs, name_start, values_start,
                   SubStrClamped(input, name_start, values_start - name_start),
                   find_token(SubStrClamped(input, name_start, values_start - name_start),
                              <<":">>, 0))
  ELSE EnumDefine(input, cursor, last_pos, output, msgs, values_start,
                  SubStrClamped(input, name_start, values_start - name_start))

\* The body of the while loop for the match at cursor.
EnumBlock(input, is_cpp, cursor, last_pos, output, msgs) ==
  EnumName(input, is_cpp, cursor, last_pos,
           output \o SubStrClamped(input, last_pos, cursor - last_pos), msgs,
           FindStr(input, <<" ">>, cursor), find_token(input, <<"{">>, cursor))

RECURSIVE EnumLoop(_, _, _, _, _, _)

\* The next turn of the loop, from the locals the last one left.
EnumNext(input, is_cpp, st) ==
  EnumLoop(input, is_cpp, st.cursor, st.last_pos, st.output, st.msgs)

\* After `cursor = find_keyword(input, "enum ", cursor + 1)`.
EnumFound(input, is_cpp, last_pos, output, msgs, found) ==
  IF found = -1 THEN EnumState(found, last_pos, output, msgs)
  ELSE IF AfterTypedef(input, found)
  THEN EnumLoop(input, is_cpp, found, last_pos, output, msgs)
  ELSE EnumNext(input, is_cpp, EnumBlock(input, is_cpp, found, last_pos, output, msgs))

EnumLoop(input, is_cpp, cursor, last_pos, output, msgs) ==
  EnumFound(input, is_cpp, last_pos, output, msgs,
            find_keyword(input, ENUM, cursor + 1))

\* The end of enum_preprocess: nothing is allocated when last_pos is 0.
EnumFinish(input, st) ==
  IF st.last_pos = 0
  THEN [source |-> input, processed_source |-> <<>>, msgs |-> st.msgs]
  ELSE [source |-> st.output \o SubStrClamped(input, st.last_pos, Len(input)),
        processed_source |-> st.output \o SubStrClamped(input, st.last_pos, Len(input)),
        msgs |-> st.msgs]

\* enum_preprocess: the effective text, the text owned by processed_source
\* (empty when nothing was rewritten) and the messages of print_error.
enum_preprocess(input, name) ==
  EnumFinish(input, EnumLoop(input, EndsWith(name, ".hh"), -1, 0, <<>>, {}))

-----------------------------------------------------------------------------
(* GPUSource::material_functions_parse                                     *)

VOID == <<"v", "o", "i", "d", " ">>
whitespace_chars == {" ", "\n", "\t"}

\* ARRAY_SIZE(func->paramtype)
MAX_PARAMETER == 36

\* StringRef::find_first_not_of(chars, pos)
FindFirstNotOf(input, chars, pos) ==
  LET hits == {i \in pos..(Len(input) - 1) : input[i + 1] \notin chars}
  IN IF pos < 0 \/ hits = {} THEN -1 ELSE Min(hits)

\* StringRef::find_first_of(chars, pos)
FindFirstOf(input, chars, pos) ==
  LET hits == {i \in pos..(Len(input) - 1) : input[i + 1] \in chars}
  IN IF pos < 0 \/ hits = {} THEN -1 ELSE Min(hits)

\* StringRef::find_last_not_of(chars, pos)
FindLastNotOf(input, chars, pos) ==
  LET hits == {i \in 0..Min({pos, Len(input) - 1}) : input[i + 1] \notin chars}
  IN IF hits = {} THEN -1 ELSE Max(hits)

NoFunction == [ok |-> FALSE, cursor |-> -1, name |-> <<>>, args |-> <<>>,
               prototype |-> FALSE]

\* `body_start != -1 && next_semicolon != -1 && body_start > next_semicolon`:
\* BLI_assert_msg(false, "No prototypes allowed ...") is reached.
IsPrototype(body_start, next_semicolon) ==
  body_start # -1 /\ next_semicolon # -1 /\ body_start > next_semicolon

\* The name and the arguments, once both parentheses are found.
FunctionName(input, found, arg_start, arg_end, prototype, name_start, name_end) ==
  IF name_start = -1 \/ name_end = -1
  THEN [NoFunction EXCEPT !.cursor = found, !.prototype = prototype]
  ELSE [ok |-> TRUE,
        cursor |-> found,
        name |-> SubStrClamped(input, name_start, name_end - name_start),
        args |-> SubStrClamped(input, arg_start + 1, arg_end - (arg_start + 1)),
        prototype |-> prototype]

FunctionArgEnd(input, found, arg_start, arg_end) ==
  IF arg_end = -1 THEN [NoFunction EXCEPT !.cursor = found]
  ELSE FunctionName(input, found, arg_start, arg_end,
                    IsPrototype(find_token(input, <<"{">>, arg_end),
                                find_token(input, <<";">>, arg_end)),
                    FindFirstNotOf(input, whitespace_chars, FindStr(input, <<" ">>, found)),
                    FindLastNotOf(input, whitespace_chars, arg_start))

FunctionArgStart(input, found, arg_start) ==
  IF arg_start = -1 THEN [NoFunction EXCEPT !.cursor = found]
  ELSE FunctionArgEnd(input, found, arg_start, find_token(input, <<")">>, arg_start))

FunctionFound(input, found) ==
  IF found = -1 THEN NoFunction
  ELSE FunctionArgStart(input, found, find_token(input, <<"(">>, found))

\* The lambda function_parse: the next `void ` declaration after cursor.
function_parse(input, cursor) ==
  FunctionFound(input, find_keyword(input, VOID, cursor + 1))

\* The lambda keyword_parse: the keyword and the cursor after it.
keyword_parse(str, cursor) ==
  LET keyword_start == FindFirstNotOf(str, whitespace_chars, cursor)
      first_space == FindFirstOf(str, whitespace_chars, keyword_start)
      keyword_end == IF first_space = -1 THEN Len(str) ELSE first_space
  IN IF keyword_start = -1 THEN [keyword |-> <<>>, cursor |-> cursor]
     ELSE [keyword |-> SubStrClamped(str, keyword_start, keyword_end - keyword_start),
           cursor |-> keyword_end + 1]

\* The three keyword_parse calls done: without a third keyword the first is
\* the type and the second the name.
ArgKeywords(arg_end, k1, k2, k3) ==
  IF k3.keyword = <<>>
  THEN [ok |-> TRUE, cursor |-> arg_end, qualifier |-> <<>>,
        type |-> k1.keyword, name |-> k2.keyword]
  ELSE [ok |-> TRUE, cursor |-> arg_end, qualifier |-> k1.keyword,
        type |-> k2.keyword, name |-> k3.keyword]

ArgKeyword3(arg_end, arg, k1, k2) ==
  ArgKeywords(arg_end, k1, k2, keyword_parse(arg, k2.cursor))

ArgKeyword2(arg_end, arg, k1) ==
  ArgKeyword3(arg_end, arg, k1, keyword_parse(arg, k1.cursor))

\* `cursor = find_token(str, ',', arg_start)`, str.size() for the last one.
ArgEnd(str, arg_start, comma) ==
  IF comma = -1 THEN Len(str) ELSE comma

ArgText(str, arg_start, arg_end) ==
  ArgKeyword2(arg_end, SubStrClamped(str, arg_start, arg_end - arg_start),
              keyword_parse(SubStrClamped(str, arg_start, arg_end - arg_start), 0))

\* The lambda arg_parse: qualifier, type and name of the argument that
\* starts after cursor.
arg_parse(str, cursor) ==
  IF cursor + 1 >= Len(str) THEN [ok |-> FALSE]
  ELSE ArgText(str, cursor + 1,
               ArgEnd(str, cursor + 1, find_token(str, <<",">>, cursor + 1)))

parse_qualifier(qualifier) ==
  CASE qualifier = <<"o", "u", "t">> -> "FUNCTION_QUAL_OUT"
    [] qualifier = <<"i", "n", "o", "u", "t">> -> "FUNCTION_QUAL_INOUT"
    [] OTHER -> "FUNCTION_QUAL_IN"

parse_type(type) ==
  CASE type = <<"f", "l", "o", "a", "t">> -> "GPU_FLOAT" []
       type = <<"v", "e", "c", "2">> -> "GPU_VEC2" []
       type = <<"v", "e", "c", "3">> -> "GPU_VEC3" []
       type = <<"v", "e", "c", "4">> -> "GPU_VEC4" []
       type = <<"m", "a", "t", "3">> -> "GPU_MAT3" []
       type = <<"m", "a", "t", "4">> -> "GPU_MAT4" []
       type = <<"s", "a", "m", "p", "l", "e", "r", "1", "D", "A", "r", "r", "a", "y">> -> "GPU_TEX1D_ARRAY" []
       type = <<"s", "a", "m", "p", "l", "e", "r", "2", "D", "A", "r", "r", "a", "y">> -> "GPU_TEX2D_ARRAY" []
       type = <<"s", "a", "m", "p", "l", "e", "r", "2", "D">> -> "GPU_TEX2D" []
       type = <<"s", "a", "m", "p", "l", "e", "r", "3", "D">> -> "GPU_TEX3D" []
       type = <<"C", "l", "o", "s", "u", "r", "e">> -> "GPU_CLOSURE"
    [] OTHER -> "GPU_NONE"

\* The offset print_error gets for a parameter of unknown type.
UnknownTypeOffset(input, func_name, arg) ==
  rfind_keyword(input, arg.type,
                find_keyword(input, arg.name, FindStr(input, func_name, 0)))

RECURSIVE ParamsLoop(_, _, _, _, _, _, _)

\* The body of the inner while loop for the argument arg_parse gave.
ParamsNext(input, func_name, func_args, paramqual, paramtype, msgs, arg) ==
  IF ~arg.ok
  THEN [paramqual |-> paramqual, paramtype |-> paramtype, msgs |-> msgs]
  ELSE IF Len(paramtype) >= MAX_PARAMETER
  THEN [paramqual |-> paramqual, paramtype |-> paramtype,
        msgs |-> msgs \cup {[msg |-> "Too much parameter in function",
                             offset |-> FindStr(input, func_name, 0)]}]
  ELSE ParamsLoop(input, func_name, func_args, arg.cursor,
                  Append(paramqual, parse_qualifier(arg.qualifier)),
                  Append(paramtype, parse_type(arg.type)),
                  IF parse_type(arg.type) = "GPU_NONE"
                  THEN msgs \cup {[msg |-> "Unknown parameter type",
                                   offset |-> UnknownTypeOffset(input, func_name, arg)]}
                  ELSE msgs)

\* The inner while loop: one qualifier and one type per argument.
ParamsLoop(input, func_name, func_args, args_cursor, paramqual, paramtype, msgs) ==
  ParamsNext(input, func_name, func_args, paramqual, paramtype, msgs,
             arg_parse(func_args, args_cursor))

\* The GPUFunction filled for a declaration that was inserted.
GPUFunction(name, this, params) ==
  [name |-> name, source |-> this, totparam |-> Len(params.paramtype),
   paramqual |-> params.paramqual, paramtype |-> params.paramtype]

\* Map::add: inserts only when the key is absent.
MapAdd(map, key, value) ==
  IF key \in DOMAIN map THEN map
  ELSE [k \in DOMAIN map \cup {key} |-> IF k = key THEN value ELSE map[k]]

OtherSourceNever(other_source, this) == FALSE

OtherSourceAlways(other_source, this) == TRUE

\* `other_source != this`
OtherSource(other_source, this) == other_source # this

RECURSIVE FunctionsLoop(_, _, _, _, _, _)

\* A declaration whose name the map did not hold: it is inserted with the
\* parameters of this declaration.
FunctionsInsert(input, this, functions, msgs, prototype, fp, params) ==
  FunctionsLoop(input, this, fp.cursor,
                MapAdd(functions, fp.name, GPUFunction(fp.name, this, params)),
                msgs \cup params.msgs, prototype)

\* `if (!insert)`: two print_error when the entry belongs to another file,
\* MEM_delete(func) otherwise; the map is left as it is.
FunctionsCollide(input, this, functions, msgs, prototype, fp) ==
  FunctionsLoop(input, this, fp.cursor, functions,
                IF OtherSource(functions[fp.name].source, this)
                THEN msgs \cup
                       {[msg |-> "Function redefinition or overload in two different files ...",
                         offset |-> FindStr(input, fp.name, 0)],
                        [msg |-> "... previous definition was here",
                         offset |-> FindStr(source[functions[fp.name].source], fp.name, 0)]}
                ELSE msgs,
                prototype)

\* The body of the outer while loop.  func_return_type is always "void", so
\* the `continue` of line 406 is never taken.
FunctionsNext(input, this, functions, msgs, prototype, fp) ==
  IF ~fp.ok
  THEN [functions |-> functions, msgs |-> msgs, prototype |-> prototype \/ fp.prototype]
  ELSE IF fp.name \in DOMAIN functions
  THEN FunctionsCollide(input, this, functions, msgs, prototype \/ fp.prototype, fp)
  ELSE FunctionsInsert(input, this, functions, msgs, prototype \/ fp.prototype, fp,
                       ParamsLoop(input, fp.name, fp.args, -1, <<>>, <<>>, {}))

FunctionsLoop(input, this, cursor, functions, msgs, prototype) ==
  FunctionsNext(input, this, functions, msgs, prototype, function_parse(input, cursor))

material_functions_parse(input, this, functions) ==
  FunctionsLoop(input, this, -1, functions, {}, FALSE)

-----------------------------------------------------------------------------
(* Construction: GPUSource::GPUSource for every SHADER_SOURCE entry, then  *)
(* the loop of gpu_shader_dependency_init.                                 *)

IsSharedHeaderAny(name) == TRUE

\* `filename.endswith(".h") || filename.endswith(".hh")`
IsSharedHeader(name) == EndsWith(name, ".h") \/ EndsWith(name, ".hh")

is_from_material_library(name) ==
  StartsWith(name, "gpu_shader_material_") /\ EndsWith(name, ".glsl")

\* Enum declarations that end in "};", each with the name and the values
\* as they stand in the text: with and without the comma after the last
\* value, with the underlying type, and with values that carry no literal.
EnumPlainComma ==
  [text |-> <<"e", "n", "u", "m", " ", "E", " ", "{", "A", "=", "0", ",", "}", ";">>, name |-> <<" ", "E", " ">>, values |-> <<"A", "=", "0">>]
EnumPlain ==
  [text |-> <<"e", "n", "u", "m", " ", "E", " ", "{", "A", "=", "0", "}", ";">>, name |-> <<" ", "E", " ">>, values |-> <<"A", "=", "0">>]
EnumTyped ==
  [text |-> <<"e", "n", "u", "m", " ", "E", ":", "u", "i", "n", "t", "3", "2", "_", "t", "{", "A", "=", "0", ",", "}", ";">>, name |-> <<" ", "E">>, values |-> <<"A", "=", "0">>]
EnumNoLiteral ==
  [text |-> <<"e", "n", "u", "m", " ", "E", " ", "{", "A", ",", "B", "}", ";">>, name |-> <<" ", "E", " ">>, values |-> <<"A", ",", "B">>]

EnumBlocks == {EnumPlainComma, EnumPlain, EnumTyped, EnumNoLiteral}

\* The lines a header may hold: the blocks above, a block without its
\* semicolon, and the typedef form.
EnumDecls ==
  {b.text \o <<"\n">> : b \in EnumBlocks}
    \cup {<<"e", "n", "u", "m", " ", "E", " ", "{", "A", "=", "0", "}", "\n">>,
          <<"t", "y", "p", "e", "d", "e", "f", " ", "e", "n", "u", "m", " ", "E", " ", "T", ";", "\n">>}

\* Text in front of a declaration: ending in a character find_str does not
\* take for a boundary, ending in a newline, and an open line comment.
Fillers ==
  {<<"x", ";">>, <<"x", "\n">>, <<"/", "/">>}

\* Function declarations of a material library, each with the name and the
\* parameters it declares: two signatures of f, a parameter of unknown
\* type, and a prototype.
DeclFFloat ==
  [text |-> <<"v", "o", "i", "d", " ", "f", "(", "f", "l", "o", "a", "t", " ", "x", ")", "{", "}", "\n">>,
   name |-> <<"f">>, paramqual |-> <<"FUNCTION_QUAL_IN">>, paramtype |-> <<"GPU_FLOAT">>]
DeclFVec3 ==
  [text |-> <<"v", "o", "i", "d", " ", "f", "(", "v", "e", "c", "3", " ", "y", ",", "o", "u", "t", " ", "f", "l", "o", "a", "t", " ", "z", ")", "{", "}", "\n">>,
   name |-> <<"f">>, paramqual |-> <<"FUNCTION_QUAL_IN", "FUNCTION_QUAL_OUT">>,
   paramtype |-> <<"GPU_VEC3", "GPU_FLOAT">>]
DeclGInt ==
  [text |-> <<"v", "o", "i", "d", " ", "g", "(", "i", "n", "t", " ", "x", ")", "{", "}", "\n">>,
   name |-> <<"g">>, paramqual |-> <<"FUNCTION_QUAL_IN">>, paramtype |-> <<"GPU_NONE">>]
DeclHPrototype ==
  [text |-> <<"v", "o", "i", "d", " ", "h", "(", ")", ";", "\n">>,
   name |-> <<"h">>, paramqual |-> <<>>, paramtype |-> <<>>]

FunctionBlocks == {DeclFFloat, DeclFVec3, DeclGInt, DeclHPrototype}

FunctionDecls == {d.text : d \in FunctionBlocks}

\* Require directives: registered, not registered, not closed.
Directives == {<<REQ, "b", CLOSE>>, <<REQ, Unregistered, CLOSE>>, <<REQ, "b">>}

Decls == EnumDecls \cup Fillers \cup FunctionDecls \cup Directives

DeclSeqs == UNION {[1..n -> Decls] : n \in 0..MaxDecls}

\* The file names of the SHADER_SOURCE entries, as <<prefix, stem, suffix>>;
\* a require directive names a file by its stem.  Either the first two files
\* are material libraries, or they are a C and a C++ shared header; the
\* third is a plain shader file.
Filenames ==
  {[f \in SourceList |->
      CASE f = SourceOrder[1] -> <<"gpu_shader_material_", f, ".glsl">>
        [] f = SourceOrder[2] -> <<"gpu_shader_material_", f, ".glsl">>
        [] OTHER -> <<"gpu_shader_", f, ".glsl">>],
   [f \in SourceList |->
      CASE f = SourceOrder[1] -> <<"gpu_shader_shared_", f, ".h">>
        [] f = SourceOrder[2] -> <<"gpu_shader_shared_", f, ".hh">>
        [] OTHER -> <<"gpu_shader_", f, ".glsl">>]}

InitBuild ==
  /\ \E ds \in DeclSeqs : \E i \in 0..Len(ds) : \E j \in i..Len(ds) :
       datatoc = [f \in SourceList |->
                    CASE f = SourceOrder[1] -> Flatten(SubSeq(ds, 1, i))
                      [] f = SourceOrder[2] -> Flatten(SubSeq(ds, i + 1, j))
                      [] OTHER -> Flatten(SubSeq(ds, j + 1, Len(ds)))]
  /\ filename \in Filenames
  /\ source = [f \in SourceList |-> <<>>]
  /\ processed_source = [f \in SourceList |-> <<>>]
  /\ builtins = [f \in SourceList |-> NONE]
  /\ dependencies = [f \in SourceList |-> <<>>]
  /\ dependencies_init = [f \in SourceList |-> FALSE]
  /\ g_functions = <<>>
  /\ unbuilt = SourceOrder
  /\ pending = SourceList
  /\ stack = <<>>
  /\ retval = NoValue
  /\ errors = 0
  /\ phase = "build"
  /\ result = NoResult
  /\ ncalls = [f \in SourceList |-> 0]
  /\ nscans = [f \in SourceList |-> 0]
  /\ returned = {}
  /\ printed = {}
  /\ used_libraries = {}
  /\ use_result = NoUse
  /\ threads = [t \in Threads |-> Idle]
  /\ acc = [t \in Slots |-> NoAcc]
  /\ scan = NoScan
  /\ seq = NoSeq
  /\ comb = NoComb

\* The object once enum_preprocess and material_functions_parse are done.
ConstructedObject(this, ep, mp) ==
  [source |-> ep.source,
   processed_source |-> ep.processed_source,
   builtins |-> ScanBuiltins(datatoc[this]),
   functions |-> mp.functions,
   msgs |-> ep.msgs \cup mp.msgs,
   prototype |-> mp.prototype]

\* `if (is_from_material_library()) material_functions_parse(g_functions)`,
\* on the text enum_preprocess left.
ConstructedFunctions(this, ep) ==
  ConstructedObject(this, ep,
    IF is_from_material_library(filename[this])
    THEN material_functions_parse(ep.source, this, g_functions)
    ELSE [functions |-> g_functions, msgs |-> {}, prototype |-> FALSE])

\* What the constructor of `this` leaves: source(datatoc), the builtin scan,
\* enum_preprocess for a shared header, material_functions_parse for a
\* material library.
Constructed(this) ==
  ConstructedFunctions(this,
    IF IsSharedHeader(filename[this])
    THEN enum_preprocess(datatoc[this], filename[this])
    ELSE [source |-> datatoc[this], processed_source |-> <<>>, msgs |-> {}])

\* The assignments of one constructor call.
ConstructAssign(this, obj) ==
  /\ source' = [source EXCEPT ![this] = obj.source]
  /\ processed_source' = [processed_source EXCEPT ![this] = obj.processed_source]
  /\ builtins' = [builtins EXCEPT ![this] = obj.builtins]
  /\ g_functions' = obj.functions
  /\ printed' = printed \cup
                  {[src |-> this, msg |-> m.msg, offset |-> m.offset] : m \in obj.msgs}

\* SHADER_SOURCE(datatoc, filename, filepath): the next entry of the list.
Construct ==
  /\ phase = "build"
  /\ unbuilt # <<>>
  /\ ConstructAssign(Head(unbuilt), Constructed(Head(unbuilt)))
  /\ unbuilt' = Tail(unbuilt)
  /\ phase' = IF Tail(unbuilt) = <<>> THEN "resolve" ELSE "build"
  /\ UNCHANGED <<dependencies, dependencies_init, pending, stack, retval, errors,
                 result, ncalls, returned, nscans, datatoc, filename,
                 used_libraries, use_result, threads, acc, scan, seq, comb>>

\* BLI_assert_msg(false, "No prototypes allowed in node GLSL libraries.") in
\* a build whose asserts abort.
ConstructAbort ==
  /\ phase = "build"
  /\ unbuilt # <<>>
  /\ is_from_material_library(filename[Head(unbuilt)])
  /\ Constructed(Head(unbuilt)).prototype
  /\ phase' = "aborted"
  /\ UNCHANGED <<fragvars, pending, stack, retval, errors, result, ncalls,
                 returned, printed, nscans, othervars>>

-----------------------------------------------------------------------------
(* gpu_material_library_use_function                                       *)

\* The names a caller asks for: declared by some library text, or by none.
FunctionNames == {<<"f">>, <<"g">>, <<"h">>, <<"k">>}

\* GPUFunctionDictionnary::lookup_default(name, nullptr)
FunctionLookupDefault(name) ==
  IF name \in DOMAIN g_functions THEN g_functions[name] ELSE NullFunction

\* The call for a name the library holds: the file name of the owner goes
\* into used_libraries and the function is returned.
UseFunction(name) ==
  /\ phase = "ready"
  /\ FunctionLookupDefault(name) # NullFunction
  /\ LET function == FunctionLookupDefault(name)
     IN /\ used_libraries' = used_libraries \cup {filename[function.source]}
        /\ use_result' = [name |-> name, function |-> function,
                          outcome |-> "returned"]
  /\ UNCHANGED <<fragvars, pending, stack, retval, errors, phase, result, ncalls,
                 returned, printed, nscans, datatoc, filename, processed_source,
                 g_functions, unbuilt, threads, acc, scan, seq, comb>>

\* The call for a name the library does not hold.  BLI_assert_msg aborts
\* when asserts are compiled in; otherwise function->source reads through
\* the null pointer and the process takes a memory fault before anything
\* is added or returned.
UseFunctionAbsent(name) ==
  /\ phase = "ready"
  /\ FunctionLookupDefault(name) = NullFunction
  /\ \E outcome \in {"assert abort", "null dereference"} :
       use_result' = [name |-> name, function |-> NullFunction,
                      outcome |-> outcome]
  /\ phase' = "aborted"
  /\ UNCHANGED <<fragvars, pending, stack, retval, errors, result, ncalls,
                 returned, printed, nscans, datatoc, filename, processed_source,
                 g_functions, unbuilt, used_libraries, threads, acc, scan, seq, comb>>

NextBuild ==
  \/ Construct
  \/ ConstructAbort
  \/ \E value \in SourceList : CallInitDependencies(value)
  \/ Enter
  \/ Scan
  \/ Resume
  \/ Accumulate
  \/ FinishInit
  \/ AssertAbort
  \/ \E name \in FunctionNames : UseFunction(name)
  \/ \E name \in FunctionNames : UseFunctionAbsent(name)

SpecBuild == InitBuild /\ [][NextBuild]_vars

-----------------------------------------------------------------------------
(* Claims on construction.                                                 *)

\* The constructor of f has run and the loop over g_sources->values() has
\* not started.
JustConstructed(f) ==
  /\ phase \in {"build", "resolve"}
  /\ pending = SourceList
  /\ stack = <<>>
  /\ \A k \in 1..Len(unbuilt) : unbuilt[k] # f

Suffix(name) == name[Len(name)]

\* C11: whenever a diagnostic was printed during gpu_shader_dependency_init,
\* the error count it ends with is not zero.
C11_DiagnosticCounted ==
  (phase = "ready" /\ printed # {}) => errors # 0

\* C14: a file whose text holds no `enum ` token, and a file whose name ends
\* in neither .h nor .hh, keeps its raw text as effective text and owns no
\* rewritten text.
C14_NoEnumNoRewrite ==
  \A f \in SourceList :
    (/\ JustConstructed(f)
     /\ \/ Suffix(filename[f]) \notin {".h", ".hh"}
        \/ FindStr(datatoc[f], ENUM, 0) = -1)
    => /\ source[f] = datatoc[f]
       /\ processed_source[f] = <<>>

C14_Witness ==
  \E f, g \in SourceList :
    /\ JustConstructed(f) /\ JustConstructed(g)
    /\ Suffix(filename[f]) \in {".h", ".hh"}
    /\ datatoc[f] # <<>>
    /\ FindStr(datatoc[f], ENUM, 0) = -1
    /\ Suffix(filename[g]) \notin {".h", ".hh"}
    /\ \E b \in EnumBlocks : FindStr(datatoc[g], b.text, 0) # -1
    /\ source[g] = datatoc[g]

\* The text of f is pre, then the block b, then post, and neither pre nor
\* post holds an `enum ` token.
OnlyBlock(f, b, at) ==
  /\ at = FindStr(datatoc[f], b.text, 0)
  /\ at # -1
  /\ FindStr(SubStrClamped(datatoc[f], 0, at), ENUM, 0) = -1
  /\ FindStr(datatoc[f], ENUM, at + 1) = -1

\* The text the claim describes: what stands before the block, the #define
\* line, the constant list, and the text from the semicolon on.
Rewritten(f, b, at) ==
  SubStrClamped(datatoc[f], 0, at)
    \o HASH_DEFINE \o b.name \o UINT_NL
    \o CONST_UINT \o b.values
    \o SubStrClamped(datatoc[f], at + Len(b.text) - 1, Len(datatoc[f]))

\* The keyword of the block stands at the start of the text or after one of
\* the boundary characters, and on a line with no open comment.
AtBoundary(f, at) ==
  at = 0 \/ (datatoc[f][at] \in Boundary /\ ~is_in_comment(datatoc[f], at))

\* C15 as stated: a header with exactly one block 'enum Name { values };'
\* ends with the text before the block, one #define line, one constant list
\* without the trailing comma, and the text from the semicolon on.
C15_SingleBlockRewritten ==
  \A f \in SourceList :
    (JustConstructed(f) /\ Suffix(filename[f]) \in {".h", ".hh"}) =>
      \A b \in {EnumPlainComma, EnumPlain} : \A at \in 0..Len(datatoc[f]) :
        (OnlyBlock(f, b, at) /\ AtBoundary(f, at))
        => source[f] = Rewritten(f, b, at)

\* C15 as amended: the same, for a .h header with a plain block or a .hh
\* header with a block that names uint32_t, every value carrying a literal,
\* the keyword at a boundary and outside comments.
C15_WellFormedBlockRewritten ==
  \A f \in SourceList :
    JustConstructed(f) =>
      \A b \in {EnumPlainComma, EnumPlain, EnumTyped} :
        Suffix(filename[f]) = (IF b = EnumTyped THEN ".hh" ELSE ".h") =>
          \A at \in 0..Len(datatoc[f]) :
            (OnlyBlock(f, b, at) /\ AtBoundary(f, at))
            => /\ source[f] = Rewritten(f, b, at)
               /\ processed_source[f] = source[f]

C15_Witness ==
  \E f \in SourceList : \E at \in 1..Len(datatoc[f]) :
    /\ JustConstructed(f)
    /\ Suffix(filename[f]) = ".h"
    /\ OnlyBlock(f, EnumPlainComma, at)
    /\ AtBoundary(f, at)
    /\ source[f] = Rewritten(f, EnumPlainComma, at)
    /\ source[f] # datatoc[f]

\* x comes before y in the SHADER_SOURCE list.
Earlier(x, y) ==
  \E i, j \in 1..Len(SourceOrder) : i < j /\ SourceOrder[i] = x /\ SourceOrder[j] = y

\* Where the text of f holds the declaration d with its `void ` at the start
\* of the text or after a boundary character, outside comments.
Occurs(f, d) ==
  {i \in 0..(Len(datatoc[f]) - 1) :
     /\ MatchAt(datatoc[f], d.text, i)
     /\ (i = 0 \/ (datatoc[f][i] \in Boundary /\ ~is_in_comment(datatoc[f], i)))}

\* The offsets at which the library f declares a void function called name.
Declarations(f, name) ==
  IF is_from_material_library(filename[f])
  THEN UNION {Occurs(f, d) : d \in {e \in FunctionBlocks : e.name = name}}
  ELSE {}

\* The first declaration of name in f.
FirstDecl(f, name) ==
  CHOOSE d \in FunctionBlocks :
    d.name = name /\ Min(Declarations(f, name)) \in Occurs(f, d)

\* The registry holds name with the parameters of its first declaration in f.
KeepsFirst(f, name) ==
  /\ name \in DOMAIN g_functions
  /\ g_functions[name].source = f
  /\ g_functions[name].paramqual = FirstDecl(f, name).paramqual
  /\ g_functions[name].paramtype = FirstDecl(f, name).paramtype
  /\ g_functions[name].totparam = Len(FirstDecl(f, name).paramtype)

Redefinition(f, name) ==
  [src |-> f,
   msg |-> "Function redefinition or overload in two different files ...",
   offset |-> FindStr(datatoc[f], name, 0)]

\* C12: when two libraries declare a void function of the same name, the
\* constructor of the second one prints the redefinition error and the
\* registry keeps the signature of the first one.
C12_RedefinitionReported ==
  \A y \in SourceList :
    JustConstructed(y) =>
      \A x \in SourceList : \A name \in FunctionNames :
        (/\ Earlier(x, y)
         /\ Declarations(x, name) # {}
         /\ Declarations(y, name) # {}
         /\ \A w \in SourceList : Earlier(w, x) => Declarations(w, name) = {})
        => /\ Redefinition(y, name) \in printed
           /\ KeepsFirst(x, name)

C12_Witness ==
  /\ JustConstructed(SourceOrder[2])
  /\ Occurs(SourceOrder[1], DeclFFloat) # {}
  /\ Occurs(SourceOrder[2], DeclFVec3) # {}
  /\ Declarations(SourceOrder[1], <<"f">>) # {}
  /\ Declarations(SourceOrder[2], <<"f">>) # {}
  /\ g_functions[<<"f">>].paramtype = <<"GPU_FLOAT">>
  /\ Redefinition(SourceOrder[2], <<"f">>) \in printed

\* C13: when one library declares the same name more than once, no
\* redefinition error is printed for it and the registry holds one entry,
\* owned by that library, with the parameters of the first declaration.
C13_SameFileDuplicate ==
  \A x \in SourceList :
    JustConstructed(x) =>
      \A name \in FunctionNames :
        (/\ Cardinality(Declarations(x, name)) >= 2
         /\ \A w \in SourceList : Earlier(w, x) => Declarations(w, name) = {})
        => /\ Redefinition(x, name) \notin printed
           /\ KeepsFirst(x, name)

C13_Witness ==
  \E x \in SourceList :
    /\ JustConstructed(x)
    /\ Cardinality(Declarations(x, <<"f">>)) >= 2
    /\ Occurs(x, DeclFFloat) # {}
    /\ Occurs(x, DeclFVec3) # {}
    /\ Min(Occurs(x, DeclFVec3)) < Min(Occurs(x, DeclFFloat))
    /\ g_functions[<<"f">>].paramtype = <<"GPU_VEC3", "GPU_FLOAT">>

\* C16: a call of gpu_material_library_use_function for a registered name
\* returns its signature and adds the file name of the owner to the used
\* set; a call for an unregistered name returns a not-found result and the
\* program goes on.
C16_UseFunctionTotal ==
  use_result.outcome # "none" =>
    IF use_result.name \in DOMAIN g_functions
    THEN /\ use_result.outcome = "returned"
         /\ use_result.function = g_functions[use_result.name]
         /\ filename[use_result.function.source] \in used_libraries
    ELSE /\ use_result.outcome = "not found"
         /\ phase = "ready"

-----------------------------------------------------------------------------
(* Queries run by several threads at once, one loop iteration per step.    *)

QueryOps ==
  {"get_builtins", "get_resolved_source", "get_source",
   "get_filename_from_source_string"}

\* What a caller may pass: a name for the lookups, and for
\* get_filename_from_source_string the owner of the text pointed to, which
\* is a registered source or none of them.
QueryArgs(op) ==
  CASE op = "get_builtins" -> QueryNames
    [] op = "get_filename_from_source_string" -> SourceList \cup {NoSource}
    [] OTHER -> SourceList

Running(t, op) == phase = "ready" /\ threads[t].pc = "run" /\ threads[t].op = op

QueryFrame ==
  UNCHANGED <<fragvars, pending, stack, retval, errors, phase, result, ncalls,
              returned, printed, nscans, datatoc, filename, processed_source,
              g_functions, unbuilt, used_libraries, use_result, scan, seq, comb>>

\* The thread returns: its value is ret, and the locals of the call are gone.
QueryReturn(t, ret) ==
  /\ threads' = [threads EXCEPT ![t].pc = "returned", ![t].ret = ret]
  /\ acc' = [acc EXCEPT ![SlotOf(t)] = NoAcc]

\* A thread enters one of the four functions; its locals are fresh.
QueryCall(t, op, name) ==
  /\ phase = "ready"
  /\ threads[t].pc = "idle"
  /\ threads' = [threads EXCEPT ![t] = [op |-> op, name |-> name, i |-> 0,
                                        pc |-> "run", ret |-> NoRet]]
  /\ acc' = [acc EXCEPT ![SlotOf(t)] = NoAcc]
  /\ QueryFrame

\* builtins_get: out_builtins |= dep->builtins
BuiltinsStep(t) ==
  /\ Running(t, "get_builtins")
  /\ Contains(threads[t].name)
  /\ threads[t].i < Len(dependencies[threads[t].name])
  /\ acc' = [acc EXCEPT ![SlotOf(t)].bits =
               @ \cup builtins[dependencies[threads[t].name][threads[t].i + 1]]]
  /\ threads' = [threads EXCEPT ![t].i = @ + 1]
  /\ QueryFrame

\* gpu_shader_dependency_get_builtins returns: NONE for the empty name and
\* for a name that is not registered, out_builtins after the loop otherwise.
BuiltinsReturn(t) ==
  /\ Running(t, "get_builtins")
  /\ IF threads[t].name = "" \/ Contains(threads[t].name) = FALSE
     THEN QueryReturn(t, NoRet)
     ELSE /\ threads[t].i = Len(dependencies[threads[t].name])
          /\ QueryReturn(t, [NoRet EXCEPT !.bits = acc[SlotOf(t)].bits])
  /\ QueryFrame

\* BLI_assert(0) for a name that is not registered, when asserts abort.
BuiltinsAbort(t) ==
  /\ Running(t, "get_builtins")
  /\ threads[t].name # ""
  /\ Contains(threads[t].name) = FALSE
  /\ phase' = "aborted"
  /\ UNCHANGED <<fragvars, pending, stack, retval, errors, result, ncalls,
                 returned, printed, nscans, othervars>>

\* build: result.append(dep->source.c_str())
BuildStep(t) ==
  /\ Running(t, "get_resolved_source")
  /\ threads[t].i < Len(dependencies[threads[t].name])
  /\ acc' = [acc EXCEPT ![SlotOf(t)].blocks =
               Append(@, CStr(dependencies[threads[t].name][threads[t].i + 1]))]
  /\ threads' = [threads EXCEPT ![t].i = @ + 1]
  /\ QueryFrame

\* build: result.append(source.c_str()), and the vector is returned.
BuildReturn(t) ==
  /\ Running(t, "get_resolved_source")
  /\ threads[t].i = Len(dependencies[threads[t].name])
  /\ QueryReturn(t, [NoRet EXCEPT !.blocks =
                       Append(acc[SlotOf(t)].blocks, CStr(threads[t].name))])
  /\ QueryFrame

\* gpu_shader_dependency_get_source
GetSource(t) ==
  /\ Running(t, "get_source")
  /\ QueryReturn(t, [NoRet EXCEPT !.ref = CStr(threads[t].name)])
  /\ QueryFrame

\* The loop of get_filename_from_source_string over g_sources->values():
\* the file name of the first source whose c_str() is the pointer given,
\* "" when there is none.
RECURSIVE FilenameLoop(_, _)
FilenameLoop(source_string, values) ==
  IF values = <<>> THEN <<>>
  ELSE IF CStr(Head(values)).owner = source_string THEN filename[Head(values)]
  ELSE FilenameLoop(source_string, Tail(values))

\* gpu_shader_dependency_get_filename_from_source_string
GetFilename(t) ==
  /\ Running(t, "get_filename_from_source_string")
  /\ QueryReturn(t, [NoRet EXCEPT !.str = FilenameLoop(threads[t].name, SourceOrder)])
  /\ QueryFrame

\* The caller has taken the value: the thread is free for its next call.
QueryDone(t) ==
  /\ phase = "ready"
  /\ threads[t].pc = "returned"
  /\ threads' = [threads EXCEPT ![t] = Idle]
  /\ UNCHANGED acc
  /\ QueryFrame

InitQuery == InitWith(QueryChunkSeqs, {NoScan}, {NoSeq}, {NoComb})

NextQuery ==
  \/ \E value \in SourceList : CallInitDependencies(value)
  \/ Enter
  \/ Scan
  \/ Resume
  \/ Accumulate
  \/ FinishInit
  \/ AssertAbort
  \/ \E t \in Threads : \E op \in QueryOps : \E name \in QueryArgs(op) : QueryCall(t, op, name)
  \/ \E t \in Threads : BuiltinsStep(t)
  \/ \E t \in Threads : BuiltinsReturn(t)
  \/ \E t \in Threads : BuiltinsAbort(t)
  \/ \E t \in Threads : BuildStep(t)
  \/ \E t \in Threads : BuildReturn(t)
  \/ \E t \in Threads : GetSource(t)
  \/ \E t \in Threads : GetFilename(t)
  \/ \E t \in Threads : QueryDone(t)

SpecQuery == InitQuery /\ [][NextQuery]_vars

\* What the call returns when it runs alone.
QueryAlone(op, name) ==
  CASE op = "get_builtins" ->
         [NoRet EXCEPT !.bits = gpu_shader_dependency_get_builtins(name)]
    [] op = "get_resolved_source" -> [NoRet EXCEPT !.blocks = Build(name)]
    [] op = "get_source" -> [NoRet EXCEPT !.ref = [owner |-> name, text |-> source[name]]]
    [] op = "get_filename_from_source_string" ->
         [NoRet EXCEPT !.str = IF name \in SourceList THEN filename[name] ELSE <<>>]

C20_ReturnsAsAlone ==
  \A t \in Threads :
    threads[t].pc = "returned" =>
      threads[t].ret = QueryAlone(threads[t].op, threads[t].name)

C20_ReadOnlyStep ==
  phase = "ready" =>
    UNCHANGED <<source, builtins, dependencies, dependencies_init, filename,
                processed_source, g_functions>>

\* C20: once gpu_shader_dependency_init has returned, no step of any
\* interleaving of the four query functions changes a source text, a
\* builtin flag set, a dependency list, a resolved flag or a registry, and
\* every call that returns gives what it gives when it runs alone.
C20_ConcurrentQueries == [][C20_ReadOnlyStep]_vars /\ []C20_ReturnsAsAlone

\* Both threads are inside a loop at once, each past its first iteration,
\* and one of them has its vector half built.
C20_Witness ==
  /\ Running("t1", "get_resolved_source")
  /\ Running("t2", "get_builtins")
  /\ threads["t1"].i = 1
  /\ Len(dependencies[threads["t1"].name]) = 2
  /\ threads["t2"].i >= 1
  /\ acc["t2"].bits # NONE
  /\ Len(acc["t1"].blocks) = 1

\* C21: for each of the thirteen builtin keywords, the bit of the keyword
\* is in the builtin flags of a source exactly when its text holds the
\* keyword, at any position.
C21_BuiltinIffPresent ==
  \A f \in SourceList : \A kw \in Keywords :
    (BuiltinOf[kw] \in builtins[f]) <=> (kw \in Range(source[f]))

-----------------------------------------------------------------------------
(* The stretches of the input that enum_preprocess copies to the output.   *)

RECURSIVE EnumCopied(_, _, _, _, _)

\* The turn after the one that left the locals st.
EnumCopiedNext(input, is_cpp, st, ranges) ==
  EnumCopied(input, is_cpp, st.cursor, st.last_pos, ranges)

\* `output += input.substr(last_pos, cursor - last_pos)` of every turn that
\* is not a typedef, and `output += input.substr(last_pos)` after the loop,
\* as the offsets [from, to) of the input they copy.
EnumCopiedFound(input, is_cpp, last_pos, ranges, found) ==
  IF found = -1
  THEN IF last_pos = 0 THEN <<>>
       ELSE Append(ranges, [from |-> last_pos, to |-> Len(input)])
  ELSE IF AfterTypedef(input, found)
  THEN EnumCopied(input, is_cpp, found, last_pos, ranges)
  ELSE EnumCopiedNext(input, is_cpp, EnumBlock(input, is_cpp, found, last_pos, <<>>, {}),
                      Append(ranges, [from |-> last_pos, to |-> found]))

EnumCopied(input, is_cpp, cursor, last_pos, ranges) ==
  EnumCopiedFound(input, is_cpp, last_pos, ranges, find_keyword(input, ENUM, cursor + 1))

\* C22: when enum_preprocess writes a rewritten text for a header, the
\* stretches of the input it copies come in input order and do not overlap:
\* no character of the input is copied twice, also after a construct that a
\* failed CHECK abandoned.
C22_StretchesCopiedOnce ==
  \A f \in SourceList :
    (JustConstructed(f) /\ IsSharedHeader(filename[f]) /\ processed_source[f] # <<>>)
    => \A i, j \in 1..Len(EnumCopied(datatoc[f], EndsWith(filename[f], ".hh"), -1, 0, <<>>)) :
         i < j =>
           EnumCopied(datatoc[f], EndsWith(filename[f], ".hh"), -1, 0, <<>>)[i].to
             <= EnumCopied(datatoc[f], EndsWith(filename[f], ".hh"), -1, 0, <<>>)[j].from

-----------------------------------------------------------------------------
(* The loops of find_str, enum_preprocess and material_functions_parse,   *)
(* one turn per step.                                                      *)

\* Largest number of declarations and lines in a scanned text.
MaxPieces == 2

\* Keywords inside a line comment, and keywords that end a longer word.
ScanComment == <<"/", "/", " ", "e", "n", "u", "m", " ", "v", "o", "i", "d", " ", "\n">>
ScanSuffix == <<"x", "e", "n", "u", "m", " ", "x", "v", "o", "i", "d", " ", "\n">>

ScanPieces == EnumDecls \cup FunctionDecls \cup {ScanComment, ScanSuffix}

\* The texts of at most n pieces.
ScanTexts(n) == {Flatten(ps) : ps \in UNION {[1..k -> ScanPieces] : k \in 0..n}}

\* The calls followed: find_str in its four instantiations from the start,
\* the middle or the end of the text, and the two scan loops from their
\* initial cursor.
ScanStarts(texts) ==
  {[NoScan EXCEPT !.fn = "find_str", !.input = t, !.keyword = k,
                  !.check_whole_word = w, !.reversed = r, !.cursor = o,
                  !.pc = "loop"] :
     t \in texts, k \in {ENUM, VOID, <<"{">>}, w \in BOOLEAN, r \in BOOLEAN,
     o \in {0, 7, 40}}
  \cup {[NoScan EXCEPT !.fn = "enum_preprocess", !.input = t, !.is_cpp = c,
                       !.pc = "loop"] : t \in texts, c \in BOOLEAN}
  \cup {[NoScan EXCEPT !.fn = "material_functions_parse", !.input = t,
                       !.pc = "loop"] : t \in texts}

ScanFrame ==
  UNCHANGED <<fragvars, pending, stack, retval, errors, phase, result, ncalls,
              returned, printed, nscans, datatoc, filename, processed_source,
              g_functions, unbuilt, used_libraries, use_result, threads, acc,
              seq, comb>>

ScanLoop(fn) == scan.pc = "loop" /\ scan.fn = fn

FindStrStay(reversed, offset) == offset

\* `offset += (reversed) ? -1 : 1`
FindStrAdvance(reversed, offset) == IF reversed THEN offset - 1 ELSE offset + 1

\* `offset = input.rfind(keyword, offset)` or `input.find(keyword, offset)`
FindStrFound ==
  IF scan.reversed THEN RFindStr(scan.input, scan.keyword, scan.cursor)
  ELSE FindStr(scan.input, scan.keyword, scan.cursor)

\* The match is not at a word boundary, or it is inside a comment.
FindStrRejected(found) ==
  /\ found > 0
  /\ \/ scan.check_whole_word /\ scan.input[found] \notin Boundary
     \/ is_in_comment(scan.input, found)

\* A turn of find_str that ends with `continue`.
FindStrContinue ==
  /\ ScanLoop("find_str")
  /\ FindStrRejected(FindStrFound)
  /\ scan' = [scan EXCEPT !.cursor = FindStrAdvance(scan.reversed, FindStrFound),
                          !.iters = @ + 1]
  /\ ScanFrame

\* The turn of find_str that ends with `return offset`.
FindStrReturn ==
  /\ ScanLoop("find_str")
  /\ ~FindStrRejected(FindStrFound)
  /\ scan' = [scan EXCEPT !.cursor = FindStrFound, !.pc = "returned", !.iters = @ + 1]
  /\ ScanFrame

\* enum_preprocess: `if (cursor == -1) break`
EnumBreak ==
  /\ ScanLoop("enum_preprocess")
  /\ find_keyword(scan.input, ENUM, scan.cursor + 1) = -1
  /\ scan' = [scan EXCEPT !.cursor = -1, !.pc = "returned", !.iters = @ + 1]
  /\ ScanFrame

\* enum_preprocess: the match follows `typedef `, `continue`.
EnumSkipTypedef ==
  /\ ScanLoop("enum_preprocess")
  /\ find_keyword(scan.input, ENUM, scan.cursor + 1) # -1
  /\ AfterTypedef(scan.input, find_keyword(scan.input, ENUM, scan.cursor + 1))
  /\ scan' = [scan EXCEPT !.cursor = find_keyword(scan.input, ENUM, scan.cursor + 1),
                          !.iters = @ + 1]
  /\ ScanFrame

\* The locals after the body of the loop, run for the match at found.
EnumTurnLocals(found) ==
  EnumBlock(scan.input, scan.is_cpp, found, scan.last_pos, <<>>, {})

\* enum_preprocess: the body of the loop, to the end or to a failed CHECK.
EnumTurn ==
  /\ ScanLoop("enum_preprocess")
  /\ find_keyword(scan.input, ENUM, scan.cursor + 1) # -1
  /\ ~AfterTypedef(scan.input, find_keyword(scan.input, ENUM, scan.cursor + 1))
  /\ scan' = [scan EXCEPT
                !.cursor = EnumTurnLocals(find_keyword(scan.input, ENUM, scan.cursor + 1)).cursor,
                !.last_pos = EnumTurnLocals(find_keyword(scan.input, ENUM, scan.cursor + 1)).last_pos,
                !.iters = @ + 1]
  /\ ScanFrame

\* material_functions_parse: function_parse found a declaration.
FunctionTurn ==
  /\ ScanLoop("material_functions_parse")
  /\ function_parse(scan.input, scan.cursor).ok
  /\ scan' = [scan EXCEPT !.cursor = function_parse(scan.input, scan.cursor).cursor,
                          !.iters = @ + 1]
  /\ ScanFrame

\* material_functions_parse: function_parse returned false.
FunctionBreak ==
  /\ ScanLoop("material_functions_parse")
  /\ ~function_parse(scan.input, scan.cursor).ok
  /\ scan' = [scan EXCEPT !.pc = "returned", !.iters = @ + 1]
  /\ ScanFrame

InitScan == InitWith({<<>>}, ScanStarts(ScanTexts(MaxPieces)), {NoSeq}, {NoComb})

NextScan ==
  \/ FindStrContinue
  \/ FindStrReturn
  \/ EnumBreak
  \/ EnumSkipTypedef
  \/ EnumTurn
  \/ FunctionTurn
  \/ FunctionBreak

SpecScan == InitScan /\ [][NextScan]_vars

\* A turn that goes round the loop again moves the cursor strictly forward
\* (backward for the reversed find_str) and keeps it inside the text.
C23_Progress ==
  (scan.pc = "loop" /\ scan'.pc = "loop") =>
    IF scan.fn = "find_str" /\ scan.reversed
    THEN scan'.cursor < scan.cursor /\ scan'.cursor >= 0
    ELSE scan'.cursor > scan.cursor /\ scan'.cursor <= Len(scan.input)

\* The turns taken so far are at most the offsets of the text, plus the
\* turn that returns.
C23_Bounded == scan.iters <= Len(scan.input) + 2

\* C23: find_str, in its four instantiations, returns after finitely many
\* turns, and the loops of enum_preprocess and material_functions_parse
\* end because every turn moves their cursor strictly forward, also the
\* turns that skip a typedef or abandon a malformed construct.
C23_ScansTerminate == [][C23_Progress]_vars /\ []C23_Bounded

\* enum_preprocess has returned after skipping a typedef and abandoning a
\* construct, with nothing rewritten.
C23_Witness ==
  /\ scan.fn = "enum_preprocess"
  /\ scan.pc = "returned"
  /\ scan.iters >= 3
  /\ scan.last_pos = 0
  /\ FindStr(scan.input, TYPEDEF, 0) = 0
  /\ find_keyword(scan.input, ENUM, Len(TYPEDEF) + 1) # -1

-----------------------------------------------------------------------------
(* SEQ_time_update_sequence on an effect strip (strip_time.c).             *)

\* Largest frame of a display range, in absolute value.
MaxFrame == 2

Frames == (0 - MaxFrame)..MaxFrame

max_ii(a, b) == IF a > b THEN a ELSE b
min_ii(a, b) == IF a < b THEN a ELSE b
max_iii(a, b, c) == max_ii(max_ii(a, b), c)
min_iii(a, b, c) == min_ii(min_ii(a, b), c)

\* seq_time_update_sequence_bounds, for a strip that is not a meta strip.
seq_time_update_sequence_bounds(s) ==
  LET startstill == IF s.startofs # 0 /\ s.startstill # 0 THEN 0 ELSE s.startstill
      endstill == IF s.endofs # 0 /\ s.endstill # 0 THEN 0 ELSE s.endstill
  IN [s EXCEPT !.startstill = startstill,
               !.endstill = endstill,
               !.startdisp = s.start + s.startofs - startstill,
               !.enddisp = s.start + s.len - s.endofs + endstill]

\* The start of the effect: the maximum of the startdisp of seq1..seq3.
EffectStart(inputs) ==
  IF Len(inputs) = 3
  THEN max_iii(inputs[1].startdisp, inputs[2].startdisp, inputs[3].startdisp)
  ELSE IF Len(inputs) = 2 THEN max_ii(inputs[1].startdisp, inputs[2].startdisp)
  ELSE inputs[1].startdisp

\* The end of the effect: the minimum of the enddisp of seq1..seq3.
EffectEnd(inputs) ==
  IF Len(inputs) = 3
  THEN min_iii(inputs[1].enddisp, inputs[2].enddisp, inputs[3].enddisp)
  ELSE IF Len(inputs) = 2 THEN min_ii(inputs[1].enddisp, inputs[2].enddisp)
  ELSE inputs[1].enddisp

\* The offsets are cleared and the range is taken from the inputs.
EffectRange(s) ==
  [s EXCEPT !.startofs = 0, !.endofs = 0, !.startstill = 0, !.endstill = 0,
            !.start = EffectStart(s.inputs), !.startdisp = EffectStart(s.inputs),
            !.enddisp = EffectEnd(s.inputs)]

InvalidEffectOrEmpty(s) == s.enddisp <= s.startdisp

\* `if (seq->enddisp < seq->startdisp)`
InvalidEffect(s) == s.enddisp < s.startdisp

\* The start/end swap with SEQ_INVALID_EFFECT set, or the flag cleared.
EffectSwap(s) ==
  IF InvalidEffect(s)
  THEN [s EXCEPT !.start = s.enddisp, !.enddisp = s.startdisp,
                 !.startdisp = s.enddisp, !.invalid = TRUE]
  ELSE [s EXCEPT !.invalid = FALSE]

\* `seq->len = seq->enddisp - seq->startdisp`
EffectLen(s) == [s EXCEPT !.len = s.enddisp - s.startdisp]

\* SEQ_time_update_sequence for an effect strip of the top-level seqbase:
\* it has no strips of its own and no meta strip holds it.
SEQ_time_update_sequence(s) ==
  seq_time_update_sequence_bounds(
    IF Len(s.inputs) >= 1 THEN EffectLen(EffectSwap(EffectRange(s)))
    ELSE seq_time_update_sequence_bounds(s))

\* The display ranges of the inputs, overlapping or not, in order or not.
SeqInputs(frames) ==
  UNION {[1..n -> [startdisp : frames, enddisp : frames]] : n \in 0..3}

\* The effect strips the function is called on: any inputs, and fields left
\* by earlier edits.
SeqStarts(inputs) ==
  {[NoSeq EXCEPT !.pc = "call", !.inputs = in, !.start = o, !.len = o + 1,
                 !.startofs = o, !.endstill = o, !.startstill = o,
                 !.invalid = (o = 1)] :
     in \in inputs, o \in {0, 1}}

UpdateSequence ==
  /\ seq.pc = "call"
  /\ seq' = [SEQ_time_update_sequence(seq) EXCEPT !.pc = "updated"]
  /\ UNCHANGED <<fragvars, pending, stack, retval, errors, phase, result, ncalls,
                 returned, printed, nscans, datatoc, filename, processed_source,
                 g_functions, unbuilt, used_libraries, use_result, threads, acc,
                 scan, comb>>

InitStrip == InitWith({<<>>}, {NoScan}, SeqStarts(SeqInputs(Frames)), {NoComb})

NextStrip == UpdateSequence

SpecStrip == InitStrip /\ [][NextStrip]_vars

\* C24: after SEQ_time_update_sequence on an effect strip with at least one
\* input, enddisp >= startdisp, start = startdisp and len = enddisp -
\* startdisp >= 0, and SEQ_INVALID_EFFECT is set exactly when the largest
\* startdisp of the inputs is above their smallest enddisp.
C24_EffectRange ==
  (seq.pc = "updated" /\ Len(seq.inputs) >= 1) =>
    /\ seq.enddisp >= seq.startdisp
    /\ seq.start = seq.startdisp
    /\ seq.len = seq.enddisp - seq.startdisp
    /\ seq.len >= 0
    /\ seq.invalid <=>
         (Max({seq.inputs[i].startdisp : i \in 1..Len(seq.inputs)})
            > Min({seq.inputs[i].enddisp : i \in 1..Len(seq.inputs)}))

\* Three inputs that do not overlap: the range was swapped and flagged.
C24_Witness ==
  /\ seq.pc = "updated"
  /\ Len(seq.inputs) = 3
  /\ seq.invalid
  /\ seq.len > 0
  /\ seq.inputs[1].enddisp < seq.inputs[2].startdisp

-----------------------------------------------------------------------------
(* curves_sculpt_comb.cc: CombOperationExecutor::execute                   *)

MaxCurves == 2

MaxPoints == 2

\* The threads that run the tasks of a parallel loop, in the order
\* EnumerableThreadSpecific hands out their vectors.
CombWorkerOrder == <<"w1", "w2">>

CombWorkers == Range(CombWorkerOrder)

\* The first point of curve_i: the curves hold their points one after the
\* other.  sizes[curve_i + 1] is the number of points of curve_i.
RECURSIVE CurveOffset(_, _)
CurveOffset(sizes, curve_i) ==
  IF curve_i = 0 THEN 0 ELSE CurveOffset(sizes, curve_i - 1) + sizes[curve_i]

\* CurvesGeometry::points_num()
points_num(sizes) == CurveOffset(sizes, Len(sizes))

\* CurvesGeometry::curves_range()
curves_range(sizes) == [i \in 1..Len(sizes) |-> i - 1]

\* CurvesGeometry::points_for_curve(curve_i), as the sequence of its indices.
points_for_curve(sizes, curve_i) ==
  [i \in 1..sizes[curve_i + 1] |-> CurveOffset(sizes, curve_i) + i - 1]

drop_nothing(points, n) == points

\* IndexRange::drop_front(n)
drop_front(points, n) == SubSeq(points, n + 1, Len(points))

\* The ways a parallel loop cuts a range into the ranges of its tasks:
\* stretches that follow each other and cover it.  An empty range has no
\* task.
RECURSIVE Splits(_)
Splits(range) ==
  IF range = <<>> THEN {<<>>}
  ELSE UNION {{<<SubSeq(range, 1, k)>> \o rest :
                 rest \in Splits(SubSeq(range, k + 1, Len(range)))} :
              k \in 1..Len(range)}

\* A task of a parallel loop: the curves it is to process, the next one, and
\* the thread that took it.
NewTask(curves) == [curves |-> curves, next |-> 1, thread |-> "none"]

TaskDone(task) == task.next > Len(task.curves)

\* The points of curve_i the comb loop writes: all but the first, unless
\* `distance_to_brush_sq > brush_radius_sq`.
CombedPoints(c, curve_i) ==
  {p \in Range(drop_front(points_for_curve(c.sizes, curve_i), 1)) : c.inside[p + 1]}

\* The points restore_segment_lengths writes for curve_i:
\* positions_cu[points[segment_i] + 1] for segment_i in IndexRange(size - 1).
RestoredPoints(c, curve_i) ==
  {points_for_curve(c.sizes, curve_i)[segment_i + 1] + 1 :
     segment_i \in 0..(c.sizes[curve_i + 1] - 2)}

\* The state execute starts in.
CombStart(first, sizes, inside) ==
  [pc |-> "start", is_first |-> first, sizes |-> sizes, inside |-> inside, tasks |-> <<>>, changed_curves |-> [w \in CombWorkers |-> <<>>],
   written |-> {}, processed |-> {}, segment_lengths |-> FALSE]

\* The stroke extensions execute is called on: up to maxcurves curves of up
\* to maxpoints points, each point inside the brush radius or not.
CombStarts(maxcurves, maxpoints) ==
  UNION {{CombStart(first, sizes, inside) :
            first \in BOOLEAN,
            inside \in [1..points_num(sizes) -> BOOLEAN]} :
         sizes \in UNION {[1..n -> 0..maxpoints] : n \in 0..maxcurves}}

\* brush_->falloff_shape: the two shapes of eBrushFalloffShape, and any
\* other value of the field.
FalloffShapes == {"PAINT_FALLOFF_SHAPE_TUBE", "PAINT_FALLOFF_SHAPE_SPHERE", "other"}

CombUnchanged ==
  UNCHANGED <<fragvars, pending, stack, retval, errors, phase, result, ncalls,
              returned, printed, nscans, datatoc, filename, processed_source,
              g_functions, unbuilt, used_libraries, use_result, threads, acc,
              scan, seq>>

\* `if (stroke_extension.is_first)`: initialize_segment_lengths fills
\* segment_lengths_cu_ from the positions, and execute returns.
CombFirst ==
  /\ comb.pc = "start"
  /\ comb.is_first
  /\ comb' = [comb EXCEPT !.pc = "done", !.segment_lengths = TRUE]
  /\ CombUnchanged

\* comb_projected or comb_spherical starts its parallel_for over
\* curves_range().
CombBegin(falloff_shape) ==
  /\ comb.pc = "start"
  /\ ~comb.is_first
  /\ falloff_shape \in {"PAINT_FALLOFF_SHAPE_TUBE", "PAINT_FALLOFF_SHAPE_SPHERE"}
  /\ \E split \in Splits(curves_range(comb.sizes)) :
       comb' = [comb EXCEPT !.pc = "comb",
                            !.tasks = [t \in DOMAIN split |-> NewTask(split[t])]]
  /\ CombUnchanged

\* BLI_assert_unreachable() for any other falloff shape: the assert aborts,
\* or restore_segment_lengths runs on no changed curves.
CombUnreachable(falloff_shape) ==
  /\ comb.pc = "start"
  /\ ~comb.is_first
  /\ falloff_shape \notin {"PAINT_FALLOFF_SHAPE_TUBE", "PAINT_FALLOFF_SHAPE_SPHERE"}
  /\ \E outcome \in {"aborted", "restore"} : comb' = [comb EXCEPT !.pc = outcome]
  /\ CombUnchanged

\* Thread w may run task t: it has taken it, or nobody has and w is not in
\* the middle of another task.
WorkerRuns(w, t) ==
  \/ comb.tasks[t].thread = w
  \/ /\ comb.tasks[t].thread = "none"
     /\ \A u \in DOMAIN comb.tasks :
          comb.tasks[u].thread = w => TaskDone(comb.tasks[u])

\* What one turn of `for (const int curve_i : curves_range)` leaves: the
\* positions written, and curve_i appended to the vector of the thread when
\* curve_changed.
CombCurveStep(t, w, curve_i, hit) ==
  [comb EXCEPT !.tasks[t].next = @ + 1,
               !.tasks[t].thread = w,
               !.written = @ \cup {[loop |-> "comb", task |-> t, point |-> p] : p \in hit},
               !.processed = @ \cup {[loop |-> "comb", task |-> t, curve |-> curve_i]},
               !.changed_curves[w] = IF hit # {} THEN Append(@, curve_i) ELSE @]

\* One curve of a task of the comb loop.
CombCurve(t, w) ==
  /\ comb.pc = "comb"
  /\ t \in DOMAIN comb.tasks
  /\ ~TaskDone(comb.tasks[t])
  /\ WorkerRuns(w, t)
  /\ comb' = CombCurveStep(t, w, comb.tasks[t].curves[comb.tasks[t].next],
                           CombedPoints(comb, comb.tasks[t].curves[comb.tasks[t].next]))
  /\ CombUnchanged

\* The slices restore_segment_lengths cuts the vectors of threads k.. into.
RECURSIVE RestoreSplits(_, _)
RestoreSplits(changed_curves, k) ==
  IF k > Len(CombWorkerOrder) THEN {<<>>}
  ELSE {slices \o rest : slices \in Splits(changed_curves[CombWorkerOrder[k]]),
                         rest \in RestoreSplits(changed_curves, k + 1)}

\* The comb loop has joined; restore_segment_lengths starts parallel_for_each
\* over the vectors and parallel_for over each of them.
CombJoin ==
  /\ comb.pc = "comb"
  /\ \A t \in DOMAIN comb.tasks : TaskDone(comb.tasks[t])
  /\ \E split \in RestoreSplits(comb.changed_curves, 1) :
       comb' = [comb EXCEPT !.pc = "restore",
                            !.tasks = [t \in DOMAIN split |-> NewTask(split[t])]]
  /\ CombUnchanged

\* One curve of a task of restore_segment_lengths.
RestoreCurve(t) ==
  /\ comb.pc = "restore"
  /\ t \in DOMAIN comb.tasks
  /\ ~TaskDone(comb.tasks[t])
  /\ comb' = [comb EXCEPT
                !.tasks[t].next = @ + 1,
                !.written = @ \cup
                  {[loop |-> "restore", task |-> t, point |-> p] :
                     p \in RestoredPoints(comb, comb.tasks[t].curves[comb.tasks[t].next])},
                !.processed = @ \cup
                  {[loop |-> "restore", task |-> t,
                    curve |-> comb.tasks[t].curves[comb.tasks[t].next]]}]
  /\ CombUnchanged

\* restore_segment_lengths has joined: tag_positions_changed and return.
RestoreJoin ==
  /\ comb.pc = "restore"
  /\ \A t \in DOMAIN comb.tasks : TaskDone(comb.tasks[t])
  /\ comb' = [comb EXCEPT !.pc = "done"]
  /\ CombUnchanged

InitComb == InitWith({<<>>}, {NoScan}, {NoSeq}, CombStarts(MaxCurves, MaxPoints))

NextComb ==
  \/ CombFirst
  \/ \E falloff_shape \in FalloffShapes : CombBegin(falloff_shape)
  \/ \E falloff_shape \in FalloffShapes : CombUnreachable(falloff_shape)
  \/ \E t \in 1..MaxCurves : \E w \in CombWorkers : CombCurve(t, w)
  \/ CombJoin
  \/ \E t \in 1..MaxCurves : RestoreCurve(t)
  \/ RestoreJoin

SpecComb == InitComb /\ [][NextComb]_vars

\* The first point of every curve that has one.
FirstPoints(sizes) ==
  {CurveOffset(sizes, curve_i) : curve_i \in {c \in 0..(Len(sizes) - 1) : sizes[c + 1] > 0}}

\* The curves that hold point p.
CurvesOf(sizes, p) ==
  {curve_i \in 0..(Len(sizes) - 1) : p \in Range(points_for_curve(sizes, curve_i))}

\* Some point of curve_i is inside the brush radius.
CurveInside(c, curve_i) ==
  \E p \in Range(points_for_curve(c.sizes, curve_i)) : c.inside[p + 1]

\* C25: a comb stroke step never writes the position of the first point of a
\* curve, never writes a point of a curve that has no point inside the brush
\* radius, writes no position when the stroke extension is the first one,
\* and within each parallel loop every position is written by at most one
\* task and every curve is processed by at most one task.
C25_CombWrites ==
  /\ \A x \in comb.written :
       /\ x.point \in 0..(points_num(comb.sizes) - 1)
       /\ x.point \notin FirstPoints(comb.sizes)
       /\ \A curve_i \in CurvesOf(comb.sizes, x.point) : CurveInside(comb, curve_i)
  /\ comb.is_first => comb.written = {}
  /\ \A x, y \in comb.written :
       (x.loop = y.loop /\ x.point = y.point) => x.task = y.task
  /\ \A x, y \in comb.processed :
       (x.loop = y.loop /\ x.curve = y.curve) => x.task = y.task

\* Two tasks of each loop have written, on two threads, and a curve whose
\* first point is inside the radius was combed and restored.
C25_Witness ==
  /\ comb.pc = "done"
  /\ \E x, y \in comb.written : x.loop = "comb" /\ y.loop = "comb" /\ x.task # y.task
  /\ \E x, y \in comb.written : x.loop = "restore" /\ y.loop = "restore" /\ x.task # y.task
  /\ \A w \in CombWorkers : comb.changed_curves[w] # <<>>
  /\ \E p \in FirstPoints(comb.sizes) :
       /\ comb.inside[p + 1]
       /\ \E x \in comb.written : x.point = p + 1

====
